---- MODULE Spec2Model ----
(***************************************************************************)
(* Referral attribution and conversion pipeline of the Urano presale       *)
(* front-end: the attribution middleware, the client-side ReferralCapture  *)
(* effect, the code-generation endpoint and the conversion endpoint, over  *)
(* a browser cookie jar and the referrers / conversions tables.            *)
(*                                                                         *)
(* Strings are TLA+ strings; the character at position i of s is           *)
(* SubSeq(s, i, i).  Values that JavaScript distinguishes from strings     *)
(* (null / undefined, numbers, parsed JSON) are tagged records.            *)
(***************************************************************************)
EXTENDS Integers, Sequences, FiniteSets, TLC

(***************************************************************************)
(* Characters                                                              *)
(***************************************************************************)
At(s, i) == SubSeq(s, i, i)

\* Printable ASCII in code-point order: code points 32..95 and 97..126 (the
\* grave accent, 96, cannot be written in a string here and is not modelled).
AsciiLow == " !\"#$%&'()*+,-./0123456789:;<=>?@ABCDEFGHIJKLMNOPQRSTUVWXYZ[\\]^_"
AsciiHigh == "abcdefghijklmnopqrstuvwxyz{|}~"

UpperLetters == "ABCDEFGHIJKLMNOPQRSTUVWXYZ"
LowerLetters == "abcdefghijklmnopqrstuvwxyz"
Digits == "0123456789"
HexUpper == "0123456789ABCDEF"
HexLower == "0123456789abcdef"

\* The characters of s, as a set.
CharsOf(s) == {At(s, i) : i \in 1..Len(s)}

\* The position of c in s, c occurring in s exactly once.
IndexOf(s, c) == CHOOSE i \in 1..Len(s) : At(s, i) = c

\* The modelled characters: printable ASCII, tab and line feed.
Chars == CharsOf(AsciiLow) \cup CharsOf(AsciiHigh) \cup {"\t", "\n"}

\* The code point of each modelled character.
CharCodes ==
  [c \in Chars |->
     IF c = "\t" THEN 9
     ELSE IF c = "\n" THEN 10
     ELSE IF c \in CharsOf(AsciiLow) THEN IndexOf(AsciiLow, c) + 31
     ELSE IndexOf(AsciiHigh, c) + 96]

CharCode(c) == CharCodes[c]

\* The modelled character with code point n, "" when there is none.
CharOf(n) ==
  IF n = 9 THEN "\t"
  ELSE IF n = 10 THEN "\n"
  ELSE IF n \in 32..95 THEN At(AsciiLow, n - 31)
  ELSE IF n \in 97..126 THEN At(AsciiHigh, n - 96)
  ELSE ""

WhiteChars == {" ", "\t", "\n"}
IsWhite(c) == c \in WhiteChars

\* String.prototype.toLowerCase, per character of the modelled alphabet.
LowerOf ==
  [c \in Chars |->
     IF c \in CharsOf(UpperLetters) THEN At(LowerLetters, IndexOf(UpperLetters, c)) ELSE c]

ToLowerChar(c) == LowerOf[c]

\* The characters lo..hi of s, each lower-cased (split in halves to keep the
\* evaluation shallow on long strings; so are the other per-character maps).
RECURSIVE MapLower(_, _, _)
MapLower(s, lo, hi) ==
  IF lo > hi THEN ""
  ELSE IF lo = hi THEN ToLowerChar(At(s, lo))
  ELSE LET mid == (lo + hi) \div 2
       IN MapLower(s, lo, mid) \o MapLower(s, mid + 1, hi)

toLowerCase(s) == MapLower(s, 1, Len(s))

\* String.prototype.toUpperCase, per character of the modelled alphabet.
UpperOf ==
  [c \in Chars |->
     IF c \in CharsOf(LowerLetters) THEN At(UpperLetters, IndexOf(LowerLetters, c)) ELSE c]

RECURSIVE MapUpper(_, _, _)
MapUpper(s, lo, hi) ==
  IF lo > hi THEN ""
  ELSE IF lo = hi THEN UpperOf[At(s, lo)]
  ELSE LET mid == (lo + hi) \div 2
       IN MapUpper(s, lo, mid) \o MapUpper(s, mid + 1, hi)

toUpperCase(s) == MapUpper(s, 1, Len(s))

\* String.prototype.trim: strips white space at both ends.
trim(s) ==
  IF \A i \in 1..Len(s) : IsWhite(At(s, i)) THEN ""
  ELSE LET a == CHOOSE i \in 1..Len(s) :
                  ~IsWhite(At(s, i)) /\ \A j \in 1..(i - 1) : IsWhite(At(s, j))
           b == CHOOSE i \in 1..Len(s) :
                  ~IsWhite(At(s, i)) /\ \A j \in (i + 1)..Len(s) : IsWhite(At(s, j))
       IN SubSeq(s, a, b)

(***************************************************************************)
(* JavaScript values.  Every value is a tagged record; the field that      *)
(* carries the payload has a different name per tag.                       *)
(***************************************************************************)
JsUndefined == [t |-> "undefined"]
JsNull == [t |-> "null"]
JsStr(s) == [t |-> "string", s |-> s]
JsNum(n) == [t |-> "number", n |-> n]
JsInfinity == [t |-> "number", inf |-> TRUE]
JsBool(b) == [t |-> "boolean", b |-> b]
\* An object is the sequence of its <<key, value>> members in insertion order.
JsObj(members) == [t |-> "object", members |-> members]

IsStr(v) == v.t = "string"
IsObj(v) == v.t = "object"
IsNullish(v) == v.t \in {"undefined", "null"}

\* typeof v
TypeOf(v) == IF v.t = "null" THEN "object" ELSE v.t

\* !v is false
Truthy(v) ==
  CASE v.t = "undefined" -> FALSE
    [] v.t = "null" -> FALSE
    [] v.t = "string" -> v.s # ""
    [] v.t = "number" -> IF "inf" \in DOMAIN v THEN TRUE ELSE v.n # 0
    [] v.t = "boolean" -> v.b
    [] OTHER -> TRUE

\* a ?? b
Coalesce(a, b) == IF IsNullish(a) THEN b ELSE a

\* obj.key, for obj already known not to be null or undefined: the last member
\* with that key of an object, undefined on a primitive.
GetProp(obj, key) ==
  IF ~IsObj(obj) THEN JsUndefined
  ELSE LET ms == obj.members
           hits == {i \in 1..Len(ms) : ms[i][1] = key}
       IN IF hits = {} THEN JsUndefined
          ELSE ms[CHOOSE i \in hits : \A j \in hits : j <= i][2]

DigitChars == CharsOf(Digits)
DigitValues == [c \in DigitChars |-> IndexOf(Digits, c) - 1]

RECURSIVE NatToString(_)
NatToString(n) ==
  IF n < 10 THEN At(Digits, n + 1)
  ELSE NatToString(n \div 10) \o At(Digits, (n % 10) + 1)

\* String(v), for the values a parsed JSON member can hold.
ToJsString(v) ==
  CASE v.t = "string" -> v.s
    [] v.t = "number" ->
         IF "inf" \in DOMAIN v THEN "Infinity"
         ELSE IF v.n < 0 THEN "-" \o NatToString(0 - v.n) ELSE NatToString(v.n)
    [] v.t = "boolean" -> IF v.b THEN "true" ELSE "false"
    [] v.t = "object" -> "[object Object]"
    [] OTHER -> v.t

(***************************************************************************)
(* encodeURIComponent / decodeURIComponent                                 *)
(***************************************************************************)
UriUnreserved == CharsOf(UpperLetters \o LowerLetters \o Digits \o "-_.!~*'()")

Hex2(n) == At(HexUpper, (n \div 16) + 1) \o At(HexUpper, (n % 16) + 1)

\* What encodeURIComponent writes for each modelled character.
UriEncoded ==
  [c \in Chars |-> IF c \in UriUnreserved THEN c ELSE "%" \o Hex2(CharCode(c))]

EncodeChar(c) == UriEncoded[c]

RECURSIVE EncodeRange(_, _, _)
EncodeRange(s, lo, hi) ==
  IF lo > hi THEN ""
  ELSE IF lo = hi THEN EncodeChar(At(s, lo))
  ELSE LET mid == (lo + hi) \div 2
       IN EncodeRange(s, lo, mid) \o EncodeRange(s, mid + 1, hi)

encodeURIComponent(s) == EncodeRange(s, 1, Len(s))

\* URLSearchParams serialisation (application/x-www-form-urlencoded): letters,
\* digits and *-._ stay, a blank becomes +, every other character is
\* percent-encoded.
FormUnreserved == CharsOf(UpperLetters \o LowerLetters \o Digits \o "*-._")

FormEncoded ==
  [c \in Chars |-> IF c \in FormUnreserved THEN c
                   ELSE IF c = " " THEN "+"
                   ELSE "%" \o Hex2(CharCode(c))]

RECURSIVE FormEncodeRange(_, _, _)
FormEncodeRange(s, lo, hi) ==
  IF lo > hi THEN ""
  ELSE IF lo = hi THEN FormEncoded[At(s, lo)]
  ELSE LET mid == (lo + hi) \div 2
       IN FormEncodeRange(s, lo, mid) \o FormEncodeRange(s, mid + 1, hi)

formUrlEncode(s) == FormEncodeRange(s, 1, Len(s))

HexChars == CharsOf(HexUpper) \cup CharsOf(HexLower)
HexValues ==
  [c \in HexChars |->
     IF c \in CharsOf(HexUpper) THEN IndexOf(HexUpper, c) - 1 ELSE IndexOf(HexLower, c) - 1]

IsHex(c) == c \in HexChars
HexVal(c) == HexValues[c]

\* The escape starting at position i of s ("%" and two hex digits), decoded;
\* "" when it is cut short, is not hexadecimal, or names a code point that is
\* not a modelled character (a control character, a byte of a UTF-8 sequence):
\* the inputs below hold no such escape.
EscapeAt(s, i) ==
  IF i + 2 > Len(s) \/ ~IsHex(At(s, i + 1)) \/ ~IsHex(At(s, i + 2)) THEN ""
  ELSE CharOf(16 * HexVal(At(s, i + 1)) + HexVal(At(s, i + 2)))

\* What position i contributes to the decoded string, every escape of s being
\* well formed: an escape its character, its two hex digits nothing.
DecodedAt(s, i) ==
  IF At(s, i) = "%" THEN EscapeAt(s, i)
  ELSE IF (i > 1 /\ At(s, i - 1) = "%") \/ (i > 2 /\ At(s, i - 2) = "%") THEN ""
  ELSE At(s, i)

RECURSIVE DecodeRange(_, _, _)
DecodeRange(s, lo, hi) ==
  IF lo > hi THEN ""
  ELSE IF lo = hi THEN DecodedAt(s, lo)
  ELSE LET mid == (lo + hi) \div 2
       IN DecodeRange(s, lo, mid) \o DecodeRange(s, mid + 1, hi)

\* [ok |-> FALSE] stands for the URIError the function throws.
decodeURIComponent(s) ==
  IF \E i \in 1..Len(s) : At(s, i) = "%" /\ EscapeAt(s, i) = ""
    THEN [ok |-> FALSE, s |-> ""]
    ELSE [ok |-> TRUE, s |-> DecodeRange(s, 1, Len(s))]

(***************************************************************************)
(* JSON.stringify / JSON.parse                                             *)
(***************************************************************************)
JsonEscaped ==
  [c \in Chars |->
     CASE c = "\"" -> "\\\""
       [] c = "\\" -> "\\\\"
       [] c = "\n" -> "\\n"
       [] c = "\t" -> "\\t"
       [] OTHER -> c]

JsonEscapeChar(c) == JsonEscaped[c]

RECURSIVE JsonEscapeRange(_, _, _)
JsonEscapeRange(s, lo, hi) ==
  IF lo > hi THEN ""
  ELSE IF lo = hi THEN JsonEscapeChar(At(s, lo))
  ELSE LET mid == (lo + hi) \div 2
       IN JsonEscapeRange(s, lo, mid) \o JsonEscapeRange(s, mid + 1, hi)

JsonQuote(s) == "\"" \o JsonEscapeRange(s, 1, Len(s)) \o "\""

\* Members whose value is undefined are left out, the others keep their order.
RECURSIVE JsonStringify(_), JsonMembers(_, _, _)
JsonStringify(v) ==
  CASE v.t = "string" -> JsonQuote(v.s)
    [] v.t = "number" -> IF "inf" \in DOMAIN v THEN "null" ELSE ToJsString(v)
    [] v.t = "boolean" -> ToJsString(v)
    [] v.t = "object" -> "{" \o JsonMembers(v.members, 1, TRUE) \o "}"
    [] OTHER -> "null"

JsonMembers(ms, i, first) ==
  IF i > Len(ms) THEN ""
  ELSE IF ms[i][2].t = "undefined" THEN JsonMembers(ms, i + 1, first)
  ELSE (IF first THEN "" ELSE ",")
         \o JsonQuote(ms[i][1]) \o ":" \o JsonStringify(ms[i][2])
         \o JsonMembers(ms, i + 1, FALSE)

JsonWhite == {" ", "\t", "\n"}

RECURSIVE SkipWs(_, _)
SkipWs(s, i) ==
  IF i <= Len(s) /\ At(s, i) \in JsonWhite THEN SkipWs(s, i + 1) ELSE i

ParseFail == [ok |-> FALSE, v |-> JsUndefined, next |-> 0]
ParseOk(v, next) == [ok |-> TRUE, v |-> v, next |-> next]

\* The number of backslashes that stand immediately before position k of s,
\* counted back no further than position i.
BackslashRun(s, i, k) ==
  IF k <= i THEN 0
  ELSE IF At(s, k - 1) # "\\" THEN 0
  ELSE LET starts == {r \in i..(k - 1) : \A t \in r..(k - 1) : At(s, t) = "\\"}
       IN k - (CHOOSE r \in starts : \A x \in starts : r <= x)

\* The position of the quote that closes the string literal whose characters
\* start at i (the first quote that no backslash escapes), 0 if there is none.
StringEnd(s, i) ==
  LET closers == {j \in i..Len(s) : At(s, j) = "\"" /\ BackslashRun(s, i, j) % 2 = 0}
  IN IF closers = {} THEN 0 ELSE CHOOSE j \in closers : \A x \in closers : j <= x

\* What the character at k of such a literal adds to the string.  The escapes
\* \" \\ \/ \n \t are read; the other escapes (\b \f \r \uXXXX) are outside
\* the modelled alphabet and are reported as a syntax error, as is a raw tab
\* or line feed.
StringPiece(s, i, k) ==
  LET c == At(s, k) IN
  IF BackslashRun(s, i, k) % 2 = 1 THEN
    CASE c = "\"" -> [ok |-> TRUE, str |-> "\""]
      [] c = "\\" -> [ok |-> TRUE, str |-> "\\"]
      [] c = "/" -> [ok |-> TRUE, str |-> "/"]
      [] c = "n" -> [ok |-> TRUE, str |-> "\n"]
      [] c = "t" -> [ok |-> TRUE, str |-> "\t"]
      [] OTHER -> [ok |-> FALSE, str |-> ""]
  ELSE IF c = "\\" THEN [ok |-> TRUE, str |-> ""]
  ELSE IF c \in {"\n", "\t"} THEN [ok |-> FALSE, str |-> ""]
  ELSE [ok |-> TRUE, str |-> c]

\* The pieces of s[lo..hi] put together.
RECURSIVE StringPieces(_, _, _, _)
StringPieces(s, i, lo, hi) ==
  IF lo > hi THEN ""
  ELSE IF lo = hi THEN StringPiece(s, i, lo).str
  ELSE StringPieces(s, i, lo, (lo + hi) \div 2)
         \o StringPieces(s, i, (lo + hi) \div 2 + 1, hi)

\* The characters of a string literal from position i (just after the opening
\* quote) to its closing quote, and the position after that quote.
ParseStringBody(s, i) ==
  LET j == StringEnd(s, i) IN
  IF j = 0 THEN [ok |-> FALSE, str |-> "", next |-> 0]
  ELSE IF \E k \in i..(j - 1) : ~StringPiece(s, i, k).ok
    THEN [ok |-> FALSE, str |-> "", next |-> 0]
  ELSE [ok |-> TRUE, str |-> StringPieces(s, i, i, j - 1), next |-> j + 1]

\* The end (exclusive) of the run of digits starting at i.
RECURSIVE DigitsEnd(_, _)
DigitsEnd(s, i) ==
  IF i <= Len(s) /\ At(s, i) \in DigitChars THEN DigitsEnd(s, i + 1) ELSE i

RECURSIVE DigitsValue(_, _, _)
DigitsValue(s, i, j) ==
  IF j <= i THEN 0
  ELSE 10 * DigitsValue(s, i, j - 1) + DigitValues[At(s, j - 1)]

\* An integer literal; fractions and exponents are not modelled.
ParseNumber(s, i) ==
  LET neg == At(s, i) = "-"
      a == IF neg THEN i + 1 ELSE i
      b == DigitsEnd(s, a)
  IN IF b = a \/ (b - a > 1 /\ At(s, a) = "0") \/ b - a > 9 THEN ParseFail
     ELSE ParseOk(JsNum(IF neg THEN 0 - DigitsValue(s, a, b) ELSE DigitsValue(s, a, b)), b)

ParseWord(s, i, word, v) ==
  IF i + Len(word) - 1 <= Len(s) /\ SubSeq(s, i, i + Len(word) - 1) = word
    THEN ParseOk(v, i + Len(word))
    ELSE ParseFail

\* Strings, integers, true / false / null and objects of these; arrays are not
\* modelled.
RECURSIVE ParseValue(_, _), ParseMembers(_, _, _)
ParseValue(s, i) ==
  IF i > Len(s) THEN ParseFail
  ELSE LET c == At(s, i) IN
    CASE c = "\"" ->
           LET r == ParseStringBody(s, i + 1)
           IN IF r.ok THEN ParseOk(JsStr(r.str), r.next) ELSE ParseFail
      [] c = "{" ->
           LET j == SkipWs(s, i + 1)
           IN IF j <= Len(s) /\ At(s, j) = "}" THEN ParseOk(JsObj(<<>>), j + 1)
              ELSE ParseMembers(s, j, <<>>)
      [] c = "n" -> ParseWord(s, i, "null", JsNull)
      [] c = "t" -> ParseWord(s, i, "true", JsBool(TRUE))
      [] c = "f" -> ParseWord(s, i, "false", JsBool(FALSE))
      [] c = "-" \/ c \in DigitChars -> ParseNumber(s, i)
      [] OTHER -> ParseFail

ParseMembers(s, i, acc) ==
  IF i > Len(s) \/ At(s, i) # "\"" THEN ParseFail
  ELSE LET k == ParseStringBody(s, i + 1)
           c == SkipWs(s, k.next)
           v == ParseValue(s, SkipWs(s, c + 1))
           e == SkipWs(s, v.next)
           acc2 == Append(acc, <<k.str, v.v>>)
       IN IF ~k.ok \/ c > Len(s) THEN ParseFail
          ELSE IF At(s, c) # ":" THEN ParseFail
          ELSE IF ~v.ok \/ e > Len(s) THEN ParseFail
          ELSE IF At(s, e) = "}" THEN ParseOk(JsObj(acc2), e + 1)
          ELSE IF At(s, e) = "," THEN ParseMembers(s, SkipWs(s, e + 1), acc2)
          ELSE ParseFail

\* [ok |-> FALSE] stands for the SyntaxError JSON.parse throws.
JsonParse(s) ==
  LET r == ParseValue(s, SkipWs(s, 1))
  IN IF r.ok /\ SkipWs(s, r.next) > Len(s)
       THEN [ok |-> TRUE, v |-> r.v]
       ELSE [ok |-> FALSE, v |-> JsUndefined]

(***************************************************************************)
(* Referral codes                                                          *)
(***************************************************************************)
REFERRAL_WHITELIST ==
  << "0xcf49627131e24cbf2bc9ab6a92e3061a56f5a251",
     "0x5dae4334cd8054027a28a6985dcde0bd1ec68620",
     "0xbe0816f9379737e3b01e162c2481f62e91bdd247",
     "0x026a648a971e4ae7805980680a54e505b6d80f3f" >>

\* A normalization that keeps the letter case.
normalizeAddressKeepingCase(address) == trim(address)

normalizeAddress(address) == toLowerCase(trim(address))

\* An allow-list test that lets every address through.
isWhitelistedReferrerAny(address) == address # ""

isWhitelistedReferrer(address) ==
  IF address = "" THEN FALSE
  ELSE LET a == normalizeAddress(address)
       IN \E i \in 1..Len(REFERRAL_WHITELIST) : REFERRAL_WHITELIST[i] = a

\* The value of the REFERRAL_CODE_SECRET environment variable in this model.
REFERRAL_CODE_SECRET == "model-secret"

\* createHash("sha256").update(msg).digest("hex"): the SHA-256 digests of the
\* messages the model hashes, tabulated.
Sha256Hex(msg) ==
  CASE msg = "0xcf49627131e24cbf2bc9ab6a92e3061a56f5a251:model-secret" ->
         "1369ae1b6d510d7fc2005c57b96e8a33a9d32a8cdc9d26506480f1233e2d0f6e"
    [] msg = "0x5dae4334cd8054027a28a6985dcde0bd1ec68620:model-secret" ->
         "823871aa7ba668caef5519235fa04b3f38bbd60b73ab56199c53e48fafa21901"
    [] msg = "0xbe0816f9379737e3b01e162c2481f62e91bdd247:model-secret" ->
         "01dfb8c5f6cdfa12248e52f0192f664fdfc1f5eef059f8f75a3b6058680d2096"
    [] msg = "0x026a648a971e4ae7805980680a54e505b6d80f3f:model-secret" ->
         "83fa95c04e08f824f43858ef4150f476641e767f4cf1e8bacda49ed7f3840dcd"
    [] msg = "0x000000000000000000000000000000000000dead:model-secret" ->
         "e4e3bdf3b3bdb8bfb78d528772abba5c82638c37794dd64e0dada756c3c399c9"
    [] msg = "0XCF49627131E24CBF2BC9AB6A92E3061A56F5A251:model-secret" ->
         "1a94d6745401c6aaa1219535cc32f347bacf7c9910532c181fb4801828e78caa"
    [] msg = "0xCF49627131e24cbF2bc9ab6a92e3061A56f5a251:model-secret" ->
         "2c437fd9b58df3a39c47e5fa3f7cf9fc9c92513400c6c1c84b180d71f1d4df3f"
    [] msg = "0X5DAE4334CD8054027A28A6985DCDE0BD1EC68620:model-secret" ->
         "009983f43ba2ecdd2aa37797514ddf6628a0f896ae5c745e194f5bad87ec265d"
    [] msg = "0x000000000000000000000000000000000000dEaD:model-secret" ->
         "506a9b5d8d3cf6986a83a5544167994f53e561ae956502d936dc2ab4fd959ab5"
    [] msg = "0X000000000000000000000000000000000000DEAD:model-secret" ->
         "987969d4dca25170b6b4b392a1270de8dfc1071b72d9d04f3d49c76c795fb261"

Base36Digits == "0123456789abcdefghijklmnopqrstuvwxyz"

\* The base-16 digits of a hex string, most significant first.
HexDigits(hex) == [i \in 1..Len(hex) |-> HexVal(At(hex, i))]

\* Long division of a base-16 digit sequence by 36: quotient digits, remainder.
RECURSIVE DivMod36(_, _, _)
DivMod36(d, i, carry) ==
  IF i > Len(d) THEN [q |-> <<>>, r |-> carry]
  ELSE LET cur == carry * 16 + d[i]
           rest == DivMod36(d, i + 1, cur % 36)
       IN [q |-> <<cur \div 36>> \o rest.q, r |-> rest.r]

IsZero(d) == \A i \in 1..Len(d) : d[i] = 0

RECURSIVE Base36From(_)
Base36From(d) ==
  IF IsZero(d) THEN ""
  ELSE LET dm == DivMod36(d, 1, 0)
       IN Base36From(dm.q) \o At(Base36Digits, dm.r + 1)

\* BigInt(`0x${hex}`).toString(36)
BigIntToString36(hex) ==
  LET d == HexDigits(hex) IN IF IsZero(d) THEN "0" ELSE Base36From(d)

RECURSIVE Repeat(_, _)
Repeat(c, n) == IF n <= 0 THEN "" ELSE c \o Repeat(c, n - 1)

\* s.padStart(n, "0")
padStart0(s, n) == Repeat("0", n - Len(s)) \o s

\* s.slice(0, n), n >= 0
slice0(s, n) == SubSeq(s, 1, IF n < Len(s) THEN n ELSE Len(s))

\* makeRefCodeForAddress hashing the address in the letter case it was given.
makeRefCodeCaseSensitive(referrerAddress, length) ==
  LET normalized == trim(referrerAddress)
      hex == Sha256Hex(normalized \o ":" \o REFERRAL_CODE_SECRET)
      slice == slice0(hex, 20)
      token == BigIntToString36(slice)
      padded == padStart0(token, length)
  IN slice0(padded, length)

\* makeRefCodeForAddress keeping the last digits of the padded token.
makeRefCodeLowOrder(referrerAddress, length) ==
  LET normalized == toLowerCase(trim(referrerAddress))
      hex == Sha256Hex(normalized \o ":" \o REFERRAL_CODE_SECRET)
      slice == slice0(hex, 20)
      token == BigIntToString36(slice)
      padded == padStart0(token, length)
  IN SubSeq(padded, Len(padded) - length + 1, Len(padded))

makeRefCodeForAddress(referrerAddress, length) ==
  LET normalized == toLowerCase(trim(referrerAddress))
      hex == Sha256Hex(normalized \o ":" \o REFERRAL_CODE_SECRET)
      slice == slice0(hex, 20)
      token == BigIntToString36(slice)
      padded == padStart0(token, length)
  IN slice0(padded, length)

(***************************************************************************)
(* The browser and the framework around the handlers                       *)
(***************************************************************************)
COOKIE_KEY == "urano_ref"
LS_KEY == "urano:ref_attribution"
MAX_AGE_SECONDS == 60 * 60 * 24 * 30

\* NODE_ENV === "production" in this model.
NodeEnvProduction == TRUE

UTM_KEYS == <<"utm_source", "utm_medium", "utm_campaign", "utm_content", "utm_term">>

\* new Date().toISOString() at tick n of the model clock.
IsoTime(n) == "2026-01-01T00:00:" \o (IF n < 10 THEN "0" ELSE "") \o NatToString(n) \o ".000Z"

\* The browser holds at most one cookie named COOKIE_KEY for the site.  value is
\* the text after "=" as the browser stores and sends it; by records who wrote
\* it and is read by no handler.
NoCookie == [present |-> FALSE]
StoredCookie(value, httpOnly, maxAge, by) ==
  [present |-> TRUE, value |-> value, httpOnly |-> httpOnly, maxAge |-> maxAge, by |-> by]

\* req.cookies.get(COOKIE_KEY)?.value and (await cookies()).get(COOKIE_KEY)?.value:
\* the framework percent-decodes each value of the Cookie header and drops a
\* cookie whose value does not decode.
RequestCookieValue(cookie) ==
  IF ~cookie.present THEN JsUndefined
  ELSE LET d == decodeURIComponent(cookie.value)
       IN IF d.ok THEN JsStr(d.s) ELSE JsUndefined

\* The Set-Cookie header the framework writes for res.cookies.set(c), applied by
\* the browser: the value is percent-encoded once more, and a cookie set by an
\* HTTP response replaces the stored one.
\* A jar that keeps the cookie it already holds when a response sets another.
ApplySetCookieKeepingFirst(cookie, c) ==
  IF cookie.present THEN cookie
  ELSE StoredCookie(encodeURIComponent(c.value), c.httpOnly, c.maxAge, "middleware")

ApplySetCookie(cookie, c) ==
  StoredCookie(encodeURIComponent(c.value), c.httpOnly, c.maxAge, "middleware")

\* An assignment to document.cookie: the browser ignores a script's write to a
\* cookie that is stored as HttpOnly.
ApplyDocumentCookie(cookie, value, maxAge) ==
  IF cookie.present /\ cookie.httpOnly THEN cookie
  ELSE StoredCookie(value, FALSE, maxAge, "client")

(***************************************************************************)
(* Attribution middleware                                                  *)
(***************************************************************************)
RefCodeChars == CharsOf(UpperLetters \o LowerLetters \o Digits \o "_-")

\* /^[a-zA-Z0-9_-]{3,64}$/.test(ref)
isValidRefCode(ref) ==
  /\ Len(ref) >= 3
  /\ Len(ref) <= 64
  /\ \A i \in 1..Len(ref) : At(ref, i) \in RefCodeChars

\* NextResponse.next(), with the cookie it sets if any.
PassThrough == [next |-> TRUE, setCookie |-> <<>>]

\* SetAttribution with the payload written to the cookie as plain JSON.
SetAttributionUnencoded(query, refCode, now) ==
  LET payload ==
        JsObj(<< <<"ref_code", JsStr(refCode)>>,
                 <<"utm_source", Coalesce(query.utm_source, JsUndefined)>>,
                 <<"utm_medium", Coalesce(query.utm_medium, JsUndefined)>>,
                 <<"utm_campaign", Coalesce(query.utm_campaign, JsUndefined)>>,
                 <<"utm_content", Coalesce(query.utm_content, JsUndefined)>>,
                 <<"utm_term", Coalesce(query.utm_term, JsUndefined)>>,
                 <<"first_seen_at", JsStr(IsoTime(now))>> >>)
  IN [next |-> TRUE,
      setCookie |-> << [name |-> COOKIE_KEY,
                        value |-> JsonStringify(payload),
                        path |-> "/",
                        maxAge |-> MAX_AGE_SECONDS,
                        sameSite |-> "lax",
                        secure |-> NodeEnvProduction,
                        httpOnly |-> TRUE] >>]

\* NextResponse.next() with the attribution cookie set.  query.k is
\* url.searchParams.get(k): null or a string.
SetAttribution(query, refCode, now) ==
  LET payload ==
        JsObj(<< <<"ref_code", JsStr(refCode)>>,
                 <<"utm_source", Coalesce(query.utm_source, JsUndefined)>>,
                 <<"utm_medium", Coalesce(query.utm_medium, JsUndefined)>>,
                 <<"utm_campaign", Coalesce(query.utm_campaign, JsUndefined)>>,
                 <<"utm_content", Coalesce(query.utm_content, JsUndefined)>>,
                 <<"utm_term", Coalesce(query.utm_term, JsUndefined)>>,
                 <<"first_seen_at", JsStr(IsoTime(now))>> >>)
  IN [next |-> TRUE,
      setCookie |-> << [name |-> COOKIE_KEY,
                        value |-> encodeURIComponent(JsonStringify(payload)),
                        path |-> "/",
                        maxAge |-> MAX_AGE_SECONDS,
                        sameSite |-> "lax",
                        secure |-> NodeEnvProduction,
                        httpOnly |-> TRUE] >>]

\* The middleware without its check of the existing cookie.
middlewareLastTouch(query, existing, now) ==
  LET ref == query.ref IN
  IF ~Truthy(ref) THEN PassThrough
  ELSE LET refCode == trim(ref.s) IN
    IF ~isValidRefCode(refCode) THEN PassThrough
    ELSE SetAttribution(query, refCode, now)

\* middleware answering a malformed code itself instead of passing it on.
middlewareRejecting(query, existing, now) ==
  LET ref == query.ref IN
  IF ~Truthy(ref) THEN PassThrough
  ELSE LET refCode == trim(ref.s) IN
    IF ~isValidRefCode(refCode) THEN [next |-> FALSE, setCookie |-> <<>>]
    ELSE IF Truthy(existing) /\ Len(trim(existing.s)) > 0 THEN PassThrough
    ELSE SetAttribution(query, refCode, now)

\* middleware without its test of the code's format.
middlewareAnyCode(query, existing, now) ==
  LET ref == query.ref IN
  IF ~Truthy(ref) THEN PassThrough
  ELSE IF Truthy(existing) /\ Len(trim(existing.s)) > 0 THEN PassThrough
  ELSE SetAttribution(query, trim(ref.s), now)

\* A middleware that keeps only a cookie holding a snapshot it can read.
middlewareReplacingUnparsable(query, existing, now) ==
  LET ref == query.ref IN
  IF ~Truthy(ref) THEN PassThrough
  ELSE LET refCode == trim(ref.s) IN
    IF ~isValidRefCode(refCode) THEN PassThrough
    ELSE IF /\ Truthy(existing)
            /\ decodeURIComponent(existing.s).ok
            /\ JsonParse(decodeURIComponent(existing.s).s).ok THEN PassThrough
    ELSE SetAttribution(query, refCode, now)

middleware(query, existing, now) ==
  LET ref == query.ref IN
  IF ~Truthy(ref) THEN PassThrough
  ELSE LET refCode == trim(ref.s) IN
    IF ~isValidRefCode(refCode) THEN PassThrough
    ELSE IF Truthy(existing) /\ Len(trim(existing.s)) > 0 THEN PassThrough
    ELSE SetAttribution(query, refCode, now)

(***************************************************************************)
(* ReferralCapture (client side)                                           *)
(***************************************************************************)
RECURSIVE PickUtmFrom(_, _)
PickUtmFrom(query, i) ==
  IF i > Len(UTM_KEYS) THEN <<>>
  ELSE LET v == query[UTM_KEYS[i]]
       IN (IF Truthy(v) /\ Len(trim(v.s)) > 0
             THEN << <<UTM_KEYS[i], JsStr(trim(v.s))>> >>
             ELSE <<>>)
          \o PickUtmFrom(query, i + 1)

pickUtmFromSearchParams(query) == PickUtmFrom(query, 1)

\* setCookie(name, value, days): the value handed to document.cookie.
setCookie(cookie, value, days) ==
  ApplyDocumentCookie(cookie, encodeURIComponent(value), days * 24 * 60 * 60)

EmptyQuery ==
  [ref |-> JsNull, utm_source |-> JsNull, utm_medium |-> JsNull,
   utm_campaign |-> JsNull, utm_content |-> JsNull, utm_term |-> JsNull]

\* The effect of ReferralCapture on a page whose URL has this query: the cookie,
\* the localStorage entry and the query of the URL afterwards.
ReferralCapture(query, cookie, stored, now) ==
  LET refCode == IF IsNullish(query.ref) THEN "" ELSE trim(query.ref.s) IN
  IF refCode = "" THEN [cookie |-> cookie, stored |-> stored, query |-> query]
  ELSE LET payload ==
             JsObj(<< <<"ref_code", JsStr(refCode)>> >>
                   \o pickUtmFromSearchParams(query)
                   \o << <<"first_seen_at", JsStr(IsoTime(now))>> >>)
           serialized == JsonStringify(payload)
       IN [cookie |-> setCookie(cookie, serialized, 30),
           stored |-> JsStr(serialized),
           query |-> EmptyQuery]

(***************************************************************************)
(* The store: the referrers and conversions tables                         *)
(***************************************************************************)
\* upsertReferrer as a plain insert into a table with no unique address.
insertReferrer(refs, referrerAddress, refCode, lastGeneratedAt, now) ==
  Append(refs, [referrer_address |-> referrerAddress,
                ref_code |-> refCode,
                created_at |-> IsoTime(now),
                last_generated_at |-> lastGeneratedAt])

\* upsertReferrer writing the row of the address anew, created_at included.
upsertReferrerReplacing(refs, referrerAddress, refCode, lastGeneratedAt, now) ==
  IF \E i \in 1..Len(refs) : refs[i].referrer_address = referrerAddress
    THEN [i \in 1..Len(refs) |->
            IF refs[i].referrer_address = referrerAddress
              THEN [referrer_address |-> referrerAddress,
                    ref_code |-> refCode,
                    created_at |-> IsoTime(now),
                    last_generated_at |-> lastGeneratedAt]
              ELSE refs[i]]
    ELSE Append(refs, [referrer_address |-> referrerAddress,
                       ref_code |-> refCode,
                       created_at |-> IsoTime(now),
                       last_generated_at |-> lastGeneratedAt])

\* upsert(..., {onConflict: "referrer_address"}) as the store applies it at
\* time now: the row of that address gets the request's ref_code and
\* last_generated_at, or a new row is added (created_at defaults to the time of
\* the insert).  lastGeneratedAt is the new Date().toISOString() the caller put
\* in the request when it built it, before it awaited the store.
upsertReferrer(refs, referrerAddress, refCode, lastGeneratedAt, now) ==
  IF \E i \in 1..Len(refs) : refs[i].referrer_address = referrerAddress
    THEN [i \in 1..Len(refs) |->
            IF refs[i].referrer_address = referrerAddress
              THEN [refs[i] EXCEPT !.ref_code = refCode,
                                   !.last_generated_at = lastGeneratedAt]
              ELSE refs[i]]
    ELSE Append(refs, [referrer_address |-> referrerAddress,
                       ref_code |-> refCode,
                       created_at |-> IsoTime(now),
                       last_generated_at |-> lastGeneratedAt])

\* getReferrerByCode without the filter on ref_code.
getReferrerByCodeAny(refs, refCode, storeDown) ==
  IF storeDown THEN [error |-> TRUE, message |-> "fetch failed", data |-> <<>>]
  ELSE IF Len(refs) > 1
    THEN [error |-> TRUE, message |-> "multiple rows returned", data |-> <<>>]
  ELSE IF refs = <<>> THEN [error |-> FALSE, message |-> "", data |-> <<>>]
  ELSE [error |-> FALSE, message |-> "",
        data |-> << [referrer_address |-> refs[1].referrer_address,
                     ref_code |-> refs[1].ref_code] >>]

\* getReferrerByCode without its test of res.error: a failed select reads as
\* no row.
getReferrerByCodeNoThrow(refs, refCode, storeDown) ==
  LET hits == {i \in 1..Len(refs) : refs[i].ref_code = refCode} IN
  IF storeDown \/ Cardinality(hits) # 1 THEN [error |-> FALSE, message |-> "", data |-> <<>>]
  ELSE LET r == refs[CHOOSE i \in hits : TRUE]
       IN [error |-> FALSE, message |-> "",
           data |-> << [referrer_address |-> r.referrer_address,
                        ref_code |-> r.ref_code] >>]

\* select("referrer_address,ref_code").eq("ref_code", refCode).maybeSingle():
\* an error when the store is down or more than one row matches, else the row
\* or null.
getReferrerByCode(refs, refCode, storeDown) ==
  LET hits == {i \in 1..Len(refs) : refs[i].ref_code = refCode} IN
  IF storeDown THEN [error |-> TRUE, message |-> "fetch failed", data |-> <<>>]
  ELSE IF Cardinality(hits) > 1
    THEN [error |-> TRUE, message |-> "multiple rows returned", data |-> <<>>]
  ELSE IF hits = {} THEN [error |-> FALSE, message |-> "", data |-> <<>>]
  ELSE LET r == refs[CHOOSE i \in hits : TRUE]
       IN [error |-> FALSE, message |-> "",
           data |-> << [referrer_address |-> r.referrer_address,
                        ref_code |-> r.ref_code] >>]

\* A chain_id the request serialises as a JSON number; Infinity is sent as null
\* and the column takes no null.
StoreAcceptsChainId(chainId) == chainId.t = "number" /\ "n" \in DOMAIN chainId

\* insertConversion writing only the first of the utm columns.
insertConversionOneUtm(convs, input, now, storeDown) ==
  IF storeDown THEN [error |-> TRUE, message |-> "fetch failed", rows |-> convs]
  ELSE IF ~StoreAcceptsChainId(input.chain_id)
    THEN [error |-> TRUE, message |-> "null value in column chain_id", rows |-> convs]
  ELSE [error |-> FALSE, message |-> "",
        rows |-> Append(convs,
          [id |-> Len(convs) + 1,
           created_at |-> IsoTime(now),
           referrer_address |-> input.referrer_address,
           buyer_address |-> input.buyer_address,
           tx_hash |-> input.tx_hash,
           chain_id |-> input.chain_id,
           amount |-> Coalesce(input.amount, JsNull),
           ref_code |-> input.ref_code,
           utm_source |-> Coalesce(input.utm_source, JsNull),
           utm_medium |-> JsNull,
           utm_campaign |-> JsNull,
           utm_content |-> JsNull,
           utm_term |-> JsNull])]

\* insertConversion into a table that takes each (chain_id, tx_hash) once.
insertConversionUniqueTx(convs, input, now, storeDown) ==
  IF storeDown THEN [error |-> TRUE, message |-> "fetch failed", rows |-> convs]
  ELSE IF ~StoreAcceptsChainId(input.chain_id)
    THEN [error |-> TRUE, message |-> "null value in column chain_id", rows |-> convs]
  ELSE IF \E i \in 1..Len(convs) :
            convs[i].tx_hash = input.tx_hash /\ convs[i].chain_id = input.chain_id
    THEN [error |-> TRUE, message |-> "duplicate key value", rows |-> convs]
  ELSE [error |-> FALSE, message |-> "",
        rows |-> Append(convs,
          [id |-> Len(convs) + 1,
           created_at |-> IsoTime(now),
           referrer_address |-> input.referrer_address,
           buyer_address |-> input.buyer_address,
           tx_hash |-> input.tx_hash,
           chain_id |-> input.chain_id,
           amount |-> Coalesce(input.amount, JsNull),
           ref_code |-> input.ref_code,
           utm_source |-> Coalesce(input.utm_source, JsNull),
           utm_medium |-> Coalesce(input.utm_medium, JsNull),
           utm_campaign |-> Coalesce(input.utm_campaign, JsNull),
           utm_content |-> Coalesce(input.utm_content, JsNull),
           utm_term |-> Coalesce(input.utm_term, JsNull)])]

\* insertConversion without throwOnError(): a failed insert goes unnoticed.
insertConversionNoThrow(convs, input, now, storeDown) ==
  IF storeDown \/ ~StoreAcceptsChainId(input.chain_id)
    THEN [error |-> FALSE, message |-> "", rows |-> convs]
  ELSE [error |-> FALSE, message |-> "",
        rows |-> Append(convs,
          [id |-> Len(convs) + 1,
           created_at |-> IsoTime(now),
           referrer_address |-> input.referrer_address,
           buyer_address |-> input.buyer_address,
           tx_hash |-> input.tx_hash,
           chain_id |-> input.chain_id,
           amount |-> Coalesce(input.amount, JsNull),
           ref_code |-> input.ref_code,
           utm_source |-> Coalesce(input.utm_source, JsNull),
           utm_medium |-> Coalesce(input.utm_medium, JsNull),
           utm_campaign |-> Coalesce(input.utm_campaign, JsNull),
           utm_content |-> Coalesce(input.utm_content, JsNull),
           utm_term |-> Coalesce(input.utm_term, JsNull)])]

\* insert(...).throwOnError(): the table with the row added (id and created_at
\* assigned by the store), or an error.
insertConversion(convs, input, now, storeDown) ==
  IF storeDown THEN [error |-> TRUE, message |-> "fetch failed", rows |-> convs]
  ELSE IF ~StoreAcceptsChainId(input.chain_id)
    THEN [error |-> TRUE, message |-> "null value in column chain_id", rows |-> convs]
  ELSE [error |-> FALSE, message |-> "",
        rows |-> Append(convs,
          [id |-> Len(convs) + 1,
           created_at |-> IsoTime(now),
           referrer_address |-> input.referrer_address,
           buyer_address |-> input.buyer_address,
           tx_hash |-> input.tx_hash,
           chain_id |-> input.chain_id,
           amount |-> Coalesce(input.amount, JsNull),
           ref_code |-> input.ref_code,
           utm_source |-> Coalesce(input.utm_source, JsNull),
           utm_medium |-> Coalesce(input.utm_medium, JsNull),
           utm_campaign |-> Coalesce(input.utm_campaign, JsNull),
           utm_content |-> Coalesce(input.utm_content, JsNull),
           utm_term |-> Coalesce(input.utm_term, JsNull)])]

(***************************************************************************)
(* HTTP handlers.  A request body is the value req.json() yields, or        *)
(* BadJson when req.json() throws.  A handler's result is its response, the *)
(* table it wrote and io, the reads and writes it made in order.            *)
(***************************************************************************)
BadJson == [t |-> "badjson"]

\* NextResponse.json(body, {status})
JsonResponse(status, body) == [status |-> status, body |-> body]
ErrorBody(msg) == [error |-> msg]
AttributedBody(b) == [ok |-> TRUE, attributed |-> b]

\* safeJsonParse: null when JSON.parse throws.
safeJsonParse(value) ==
  LET r == JsonParse(value) IN IF r.ok THEN r.v ELSE JsNull

\* The value of REFERRAL_LANDING_DOMAIN in this model.
LANDING_DOMAIN == "https://presale.example/"

RECURSIVE StripTrailingSlashes(_)
StripTrailingSlashes(s) ==
  IF Len(s) > 0 /\ At(s, Len(s)) = "/" THEN StripTrailingSlashes(SubSeq(s, 1, Len(s) - 1))
  ELSE s

\* The landing domain has no path or query of its own, so the URL renders as
\* origin, "/", then the four parameters in the order they were set, each
\* value as url.searchParams serialises it.
buildReferralLink(refCode) ==
  StripTrailingSlashes(LANDING_DOMAIN) \o "/?ref=" \o formUrlEncode(refCode)
    \o "&utm_source=" \o formUrlEncode("referral")
    \o "&utm_medium=" \o formUrlEncode("wallet")
    \o "&utm_campaign=" \o formUrlEncode("presale")

\* POST /api/referral/generate, the whole call at time now, nothing else
\* happening between its request to the store and the store's answer.
GeneratePOST(body, refs, now, storeDown) ==
  IF body = BadJson THEN
    [resp |-> JsonResponse(500, ErrorBody("Unexpected token in JSON")),
     refs |-> refs, io |-> <<>>]
  ELSE IF IsNullish(body) THEN
    [resp |-> JsonResponse(500, ErrorBody("Cannot read properties of null (reading 'address')")),
     refs |-> refs, io |-> <<>>]
  ELSE LET addressRaw == GetProp(body, "address") IN
    IF ~Truthy(addressRaw) \/ TypeOf(addressRaw) # "string" THEN
      [resp |-> JsonResponse(400, ErrorBody("Missing address")),
       refs |-> refs, io |-> <<>>]
    ELSE LET address == normalizeAddress(addressRaw.s) IN
      IF ~isWhitelistedReferrer(address) THEN
        [resp |-> JsonResponse(403, ErrorBody("Not authorized")),
         refs |-> refs, io |-> <<>>]
      ELSE LET refCode == makeRefCodeForAddress(address, 12)
               referralLink == buildReferralLink(refCode)
           IN IF storeDown THEN
                [resp |-> JsonResponse(500, ErrorBody("fetch failed")),
                 refs |-> refs, io |-> <<"upsert referrers">>]
              ELSE
                [resp |-> JsonResponse(200, [ref_code |-> refCode,
                                             referral_link |-> referralLink]),
                 refs |-> upsertReferrer(refs, address, refCode, IsoTime(now), now),
                 io |-> <<"upsert referrers">>]

\* POST /api/referral/generate at time now up to its await of the store: the
\* response of a call that ends there, or the upsert request it has built,
\* last_generated_at included.
GenerateUntilUpsert(body, now) ==
  IF body = BadJson THEN
    [done |-> TRUE, resp |-> JsonResponse(500, ErrorBody("Unexpected token in JSON"))]
  ELSE IF IsNullish(body) THEN
    [done |-> TRUE,
     resp |-> JsonResponse(500, ErrorBody("Cannot read properties of null (reading 'address')"))]
  ELSE LET addressRaw == GetProp(body, "address") IN
    IF ~Truthy(addressRaw) \/ TypeOf(addressRaw) # "string" THEN
      [done |-> TRUE, resp |-> JsonResponse(400, ErrorBody("Missing address"))]
    ELSE LET address == normalizeAddress(addressRaw.s) IN
      IF ~isWhitelistedReferrer(address) THEN
        [done |-> TRUE, resp |-> JsonResponse(403, ErrorBody("Not authorized"))]
      ELSE LET refCode == makeRefCodeForAddress(address, 12)
           IN [done |-> FALSE,
               req |-> [sent |-> addressRaw.s, address |-> address, refCode |-> refCode,
                        last_generated_at |-> IsoTime(now),
                        referralLink |-> buildReferralLink(refCode)]]

\* The same call from the store's answer to the upsert on; now is the time at
\* which the store applies the upsert.
GenerateFromUpsert(req, refs, now, storeDown) ==
  IF storeDown THEN
    [resp |-> JsonResponse(500, ErrorBody("fetch failed")), refs |-> refs]
  ELSE
    [resp |-> JsonResponse(200, [ref_code |-> req.refCode,
                                 referral_link |-> req.referralLink]),
     refs |-> upsertReferrer(refs, req.address, req.refCode, req.last_generated_at, now)]

\* The attribution the convert route reads from the cookie's value: ok is false
\* when decodeURIComponent throws, v is null for an empty cookie and for text
\* JSON.parse rejects.
ReadAttribution(cookieValue) ==
  LET raw == Coalesce(cookieValue, JsStr("")).s
      decoded == IF raw # "" THEN decodeURIComponent(raw) ELSE [ok |-> TRUE, s |-> ""]
  IN IF ~decoded.ok THEN [ok |-> FALSE, v |-> JsNull]
     ELSE [ok |-> TRUE, v |-> IF decoded.s # "" THEN safeJsonParse(decoded.s) ELSE JsNull]

\* attribution?.ref_code as the convert route reads it from a cookie value;
\* undefined when there is none to read.
RefCodeRead(cookieValue) ==
  LET read == ReadAttribution(cookieValue)
  IN IF ~read.ok \/ IsNullish(read.v) THEN JsUndefined ELSE GetProp(read.v, "ref_code")

\* The same of the cookie a browser holds.
StoredRefCode(cookie) == RefCodeRead(RequestCookieValue(cookie))

\* POST /api/referral/convert from the reading of attribution?.ref_code to
\* its first await of the store: read is what ReadAttribution yields for the
\* request's cookie.
ConvertAttribution(body, buyer, txHash, chainId, read) ==
  LET Done(resp, io) == [done |-> TRUE, resp |-> resp, io |-> io] IN
  IF ~read.ok THEN Done(JsonResponse(500, ErrorBody("URI malformed")), <<"read cookie">>)
  ELSE IF IsNullish(read.v) \/ ~Truthy(GetProp(read.v, "ref_code")) THEN
    Done(JsonResponse(200, AttributedBody(FALSE)), <<"read cookie">>)
  ELSE [done |-> FALSE,
        call |-> [buyer |-> buyer,
                  txHash |-> txHash,
                  chainId |-> chainId,
                  amount |-> Coalesce(GetProp(body, "amount"), JsNull),
                  attribution |-> read.v,
                  refCode |-> trim(ToJsString(GetProp(read.v, "ref_code")))]]

\* POST /api/referral/convert up to its first await of the store: the
\* validation of the body and the reading of the cookie.  cookieValue is
\* cookieStore.get(COOKIE_KEY)?.value.  The call answers there, or goes on to
\* select the referrer of the code it read.
ConvertUntilSelect(body, cookieValue) ==
  LET Done(resp, io) == [done |-> TRUE, resp |-> resp, io |-> io] IN
  IF body = BadJson THEN Done(JsonResponse(500, ErrorBody("Unexpected token in JSON")), <<>>)
  ELSE IF IsNullish(body) THEN
    Done(JsonResponse(500, ErrorBody("Cannot read properties of null (reading 'buyer_address')")),
         <<>>)
  ELSE LET buyerRaw == GetProp(body, "buyer_address")
           txHashRaw == GetProp(body, "tx_hash")
           chainId == GetProp(body, "chain_id")
       IN
    IF ~Truthy(buyerRaw) \/ TypeOf(buyerRaw) # "string" THEN
      Done(JsonResponse(400, ErrorBody("Missing buyer_address")), <<>>)
    ELSE IF ~Truthy(txHashRaw) \/ TypeOf(txHashRaw) # "string" THEN
      Done(JsonResponse(400, ErrorBody("Missing tx_hash")), <<>>)
    \* Number.isNaN(chainId) is false of every number a JSON body can hold.
    ELSE IF TypeOf(chainId) # "number" THEN
      Done(JsonResponse(400, ErrorBody("Missing chain_id")), <<>>)
    ELSE ConvertAttribution(body, normalizeAddress(buyerRaw.s), trim(txHashRaw.s), chainId,
                            ReadAttribution(cookieValue))

\* The same call from the store's answer to getReferrerByCode on, refs being
\* the referrers table at the time of the select: it answers, or goes on to
\* insert the row it has built.
ConvertFromSelect(call, refs, storeDown) ==
  LET ref == getReferrerByCode(refs, call.refCode, storeDown)
      io == <<"read cookie", "select referrers">>
  IN IF ref.error THEN [done |-> TRUE, resp |-> JsonResponse(500, ErrorBody(ref.message)), io |-> io]
     ELSE IF ref.data = <<>> \/ ref.data[1].referrer_address = "" THEN
       [done |-> TRUE, resp |-> JsonResponse(200, AttributedBody(FALSE)), io |-> io]
     ELSE
       [done |-> FALSE,
        input |-> [referrer_address |-> normalizeAddress(ref.data[1].referrer_address),
                   buyer_address |-> call.buyer,
                   tx_hash |-> call.txHash,
                   chain_id |-> call.chainId,
                   amount |-> call.amount,
                   ref_code |-> call.refCode,
                   utm_source |-> Coalesce(GetProp(call.attribution, "utm_source"), JsNull),
                   utm_medium |-> Coalesce(GetProp(call.attribution, "utm_medium"), JsNull),
                   utm_campaign |-> Coalesce(GetProp(call.attribution, "utm_campaign"), JsNull),
                   utm_content |-> Coalesce(GetProp(call.attribution, "utm_content"), JsNull),
                   utm_term |-> Coalesce(GetProp(call.attribution, "utm_term"), JsNull)]]

\* The same call from the store's answer to insertConversion on, convs being
\* the conversions table at the time now of the insert.
ConvertFromInsert(input, convs, now, storeDown) ==
  LET ins == insertConversion(convs, input, now, storeDown)
      io == <<"read cookie", "select referrers", "insert conversions">>
  IN IF ins.error
       THEN [resp |-> JsonResponse(500, ErrorBody(ins.message)), convs |-> convs, io |-> io]
       ELSE [resp |-> JsonResponse(200, AttributedBody(TRUE)), convs |-> ins.rows, io |-> io]

\* POST /api/referral/convert, the whole call at time now with nothing else
\* happening between its awaits.  fault names the store call that fails in
\* this request, if any.
ConvertPOST(body, cookieValue, refs, convs, now, fault) ==
  CHOOSE r \in
    { IF u.done THEN [resp |-> u.resp, convs |-> convs, io |-> u.io]
      ELSE CHOOSE q \in
        { IF sel.done THEN [resp |-> sel.resp, convs |-> convs, io |-> sel.io]
          ELSE ConvertFromInsert(sel.input, convs, now, fault = "insert")
          : sel \in {ConvertFromSelect(u.call, refs, fault = "lookup")} } : TRUE
      : u \in {ConvertUntilSelect(body, cookieValue)} } : TRUE

(***************************************************************************)
(* Inputs                                                                  *)
(***************************************************************************)
MaxVisits == 2
MaxGenerates == 2
MaxConverts == 2
MaxGenCalls == 3
MaxPending == 2
MaxConverting == 1
MaxPurchaseClicks == 4
MaxChanges == 2
MaxAmountChanges == 1
MaxServing == 2
MaxExporting == 1

AddressA == REFERRAL_WHITELIST[1]
AddressAMixed == "  0xCF49627131e24cbF2bc9ab6a92e3061A56f5a251 "
AddressB == REFERRAL_WHITELIST[2]
AddressOther == "0x000000000000000000000000000000000000dEaD"

CodeA == makeRefCodeForAddress(AddressA, 12)
CodeB == makeRefCodeForAddress(AddressB, 12)

Query(ref, source, medium, term) ==
  [ref |-> ref, utm_source |-> source, utm_medium |-> medium,
   utm_campaign |-> JsNull, utm_content |-> JsNull, utm_term |-> term]

\* The link the generate endpoint builds for the first allow-listed address.
LinkA ==
  [EmptyQuery EXCEPT !.ref = JsStr(CodeA), !.utm_source = JsStr("referral"),
                     !.utm_medium = JsStr("wallet"), !.utm_campaign = JsStr("presale")]

\* The second address's code, padded, with an empty tag and a tag holding "%".
LinkB == Query(JsStr(" " \o CodeB \o " "), JsStr(""), JsNull, JsStr("sale 100%"))

\* A code the middleware rejects (too short), with a padded tag.
LinkShort == Query(JsStr("ab"), JsStr(" mail "), JsNull, JsNull)

\* The query strings of the pages the browser visits.
Queries == {EmptyQuery, LinkA, LinkB, LinkShort}

\* Further queries, on which the middleware and ReferralCapture are evaluated
\* without the browser visiting them: a well-formed code no referrer owns, a
\* character outside the class, an empty and a blank ref, a code of 65
\* characters.
AllQueries ==
  Queries \cup
  { Query(JsStr("xyz_-9"), JsNull, JsStr("ads"), JsNull),
    Query(JsStr("50%"), JsNull, JsNull, JsNull),
    Query(JsStr(""), JsStr("mail"), JsNull, JsNull),
    Query(JsStr("  "), JsNull, JsNull, JsNull),
    Query(JsStr(Repeat("a", 65)), JsNull, JsNull, JsNull) }

\* urano_ref values a request can carry that this pipeline did not write (typed
\* by the user, left by another deployment), as the browser stores them.
ForeignCookieValues ==
  { "",                                    \* empty
    "%20",                                 \* a blank
    "%",                                   \* the framework cannot decode it
    "%25",                                 \* the framework decodes it to "%"
    "garbage",                             \* not JSON
    "null",
    "%7B%7D",                              \* {}
    encodeURIComponent("{\"ref_code\":\"\"}"),
    encodeURIComponent("{\"ref_code\":42}"),
    encodeURIComponent("{\"ref_code\":\" " \o CodeA \o " \",\"utm_term\":null}") }

ForeignCookies ==
  {StoredCookie(v, FALSE, MAX_AGE_SECONDS, "foreign") : v \in ForeignCookieValues}

GenerateBody(address) == JsObj(<< <<"address", address>> >>)

\* Bodies of POST /api/referral/generate.
GenerateBodies ==
  { BadJson, JsNull, JsObj(<<>>), JsStr(AddressA),
    GenerateBody(JsNum(7)), GenerateBody(JsStr("")),
    GenerateBody(JsStr(AddressA)), GenerateBody(JsStr(AddressAMixed)),
    GenerateBody(JsStr(AddressB)), GenerateBody(JsStr(AddressOther)) }

\* The bodies of the generate calls the model makes.
GenerateCalls ==
  {GenerateBody(JsStr(AddressA)), GenerateBody(JsStr(AddressOther)), JsNull}

ConvertBody(buyer, tx, chain, amount) ==
  JsObj(<< <<"buyer_address", buyer>>, <<"tx_hash", tx>>,
           <<"chain_id", chain>>, <<"amount", amount>> >>)

BodyA == ConvertBody(JsStr("0xdef"), JsStr("0x123"), JsNum(42161), JsStr("100"))
BodyB ==
  JsObj(<< <<"buyer_address", JsStr(" 0xDeF ")>>, <<"tx_hash", JsStr(" 0x456 ")>>,
           <<"chain_id", JsNum(1)>> >>)
\* chain_id written 1e999 in the body: JSON.parse yields Infinity.
BodyInfinity == ConvertBody(JsStr("0xdef"), JsStr("0x123"), JsInfinity, JsNull)

\* Bodies of POST /api/referral/convert with the three required fields ...
ValidConvertBodies == {BodyA, BodyB}

\* ... and with a required field missing or of the wrong kind.
InvalidConvertBodies ==
  { JsObj(<<>>), JsNum(5),
    ConvertBody(JsStr(""), JsStr("0x123"), JsNum(42161), JsNull),
    ConvertBody(JsNum(9), JsStr("0x123"), JsNum(42161), JsNull),
    ConvertBody(JsStr("0xdef"), JsNull, JsNum(42161), JsNull),
    ConvertBody(JsStr("0xdef"), JsStr(""), JsNum(42161), JsNull),
    ConvertBody(JsStr("0xdef"), JsStr("0x123"), JsStr("42161"), JsNull),
    ConvertBody(JsStr("0xdef"), JsStr("0x123"), JsNull, JsNull),
    JsObj(<< <<"buyer_address", JsStr("0xdef")>>, <<"tx_hash", JsStr("0x123")>> >>),
    BodyInfinity }

\* Bodies with no property to read: not JSON, and the JSON value null.
UnreadableBodies == {BadJson, JsNull}

ConvertBodies == ValidConvertBodies \cup InvalidConvertBodies \cup UnreadableBodies

\* Which store call of a request fails, if any.
Faults == {"none", "lookup", "insert"}

\* The bodies of the convert calls the model makes.
ConvertCalls == {BodyB, BodyInfinity, JsNull}

(***************************************************************************)
(* State                                                                   *)
(***************************************************************************)
VARIABLES
  jar,          \* the browser's urano_ref cookie
  localStore,   \* localStorage[LS_KEY]: null or the stored string
  page,         \* the query of the page shown and whether its effect has run
  referrers,    \* the referrers table, rows in insertion order
  conversions,  \* the conversions table, rows in insertion order
  last,         \* the last step taken and its result
  count,        \* visits made; generate calls answered 200; convert calls
                \* answered attributed:true
  gen,          \* generate calls: those waiting on the store, the answers
                \* given, the number begun
  ui,           \* the purchase section: its React state, what it has shown
                \* and logged, where onClickCta stands, its conversion request
  flight,       \* the page requests of the browser that may overlap: what
                \* each carried, its response, and how far it has come
  converting,   \* convert calls waiting on the store: at the select of the
                \* referrer, or at the insert of the row they have built
  exporting     \* export calls waiting on the store: what each asked for and
                \* what the store's select has read for it

vars ==
  <<jar, localStore, page, referrers, conversions, last, count, gen, ui, flight, converting,
    exporting>>

\* The browser's clock counts visits, the store's counts its writes.
BrowserNow == count.visits
ServerNow == count.generated + Len(conversions)

\* The connected wallet's address, and that of its other account.
BuyerAddress == "0x8ba1f109551bD432803012645Ac136ddd64DBA72"
OtherBuyerAddress == "0x2546BcD3c84621e976D8185a91A922aE77ECEc30"

\* What a render closes over: the values onClickCta, canClick and the
\* success modal read.
Closure(u) ==
  [amount |-> u.amount, address |-> u.address, loadingPhase |-> u.loadingPhase,
   approvedThisSession |-> u.approvedThisSession,
   purchaseSuccessModalOpen |-> u.purchaseSuccessModalOpen]

\* React commits a render of the current state: the handlers of the page are
\* those of that render. The effects of the render run afterwards.
Commit(u) == [u EXCEPT !.rendered = Closure(u)]

\* The effect on [amount, address] is due: the committed render has another
\* amount or address than the render the effect last ran for.
EffectPending(u) == <<u.rendered.amount, u.rendered.address>> # u.deps

\* useEffect(() => setApprovedThisSession(false), [amount, address]) running
\* for the committed render.
ApprovalResetEffect(u) ==
  [u EXCEPT !.approvedThisSession = FALSE,
            !.deps = <<u.rendered.amount, u.rendered.address>>]

\* React starts a render: the effects of the last commit that have not run
\* are run first, then the state is rendered and committed.
FlushAndCommit(u) == Commit(IF EffectPending(u) THEN ApprovalResetEffect(u) ELSE u)

\* A call of onClickCta that has not returned.
Live(run) == run.pc # "done"
LiveRuns(u) == {i \in 1..Len(u.runs) : Live(u.runs[i])}

\* MainSection as mounted, for a user who can pay amount with the wallet
\* connected: the React state, the last committed render, what the page has
\* shown and logged, the calls of onClickCta made so far (where each stands,
\* the hash its buy returned, its conversion request), the number of
\* transactions sent and of clicks made.
MainSection(amount) ==
  Commit([loadingPhase |-> "idle", approvedThisSession |-> FALSE,
          purchaseSuccessModalOpen |-> FALSE, amount |-> amount,
          address |-> BuyerAddress, deps |-> <<amount, BuyerAddress>>, rendered |-> <<>>,
          toasts |-> <<>>, errors |-> <<>>, runs |-> <<>>, txs |-> 0, clicks |-> 0,
          changes |-> 0])

Init ==
  /\ ui = MainSection(0)
  /\ jar = NoCookie
  /\ localStore = JsNull
  /\ page = [query |-> EmptyQuery, effectDone |-> TRUE]
  /\ referrers = <<>>
  /\ conversions = <<>>
  /\ last = [op |-> "init"]
  /\ count = [visits |-> 0, generated |-> 0, attributed |-> 0]
  /\ gen = [pending |-> <<>>, answers |-> {}, begun |-> 0]
  /\ flight = <<>>
  /\ converting = <<>>
  /\ exporting = <<>>

\* The browser requests a page: the middleware runs on the request and the
\* browser applies the response's Set-Cookie.
Visit(query, existing) ==
  /\ page.effectDone
  /\ count.visits < MaxVisits
  /\ \E res \in {middleware(query, existing, BrowserNow + 1)} :
        /\ jar' = IF res.setCookie # <<>> THEN ApplySetCookie(jar, res.setCookie[1]) ELSE jar
        /\ last' = [op |-> "middleware", jarBefore |-> jar, res |-> res]
  /\ page' = [query |-> query, effectDone |-> FALSE]
  /\ count' = [count EXCEPT !.visits = @ + 1]
  /\ UNCHANGED <<localStore, referrers, conversions, gen, ui, flight, converting, exporting>>

\* The page mounts and the ReferralCapture effect runs once.
Capture ==
  /\ ~page.effectDone
  /\ \E r \in {ReferralCapture(page.query, jar, localStore, BrowserNow)} :
        /\ jar' = r.cookie
        /\ localStore' = r.stored
        /\ page' = [query |-> r.query, effectDone |-> TRUE]
        /\ last' = [op |-> "capture", jarBefore |-> jar, query |-> page.query]
  /\ UNCHANGED <<referrers, conversions, count, gen, ui, flight, converting, exporting>>

(***************************************************************************)
(* The generate endpoint under concurrent calls: a call runs to its await  *)
(* of the upsert, the store applies the upserts one at a time in any       *)
(* order.                                                                  *)
(***************************************************************************)
\* The spellings of an allow-listed address a caller may send: as listed, in
\* upper case, in mixed case with blanks around it.
Spellings(address) ==
  {address, toUpperCase(address), " " \o address \o "\t"}
    \cup (IF address = AddressA THEN {AddressAMixed} ELSE {})

\* The bodies of the concurrent calls.
GenBodies ==
  {GenerateBody(JsStr(s)) : s \in Spellings(AddressA) \cup {AddressB, AddressOther}}
    \cup {JsObj(<<>>), JsNull}

RemoveAt(seq, i) == SubSeq(seq, 1, i - 1) \o SubSeq(seq, i + 1, Len(seq))

\* A call arrives and runs until it answers or awaits the store.
GenBegin(body) ==
  /\ gen.begun < MaxGenCalls
  /\ Len(gen.pending) < MaxPending
  /\ \E u \in {GenerateUntilUpsert(body, ServerNow + 1)} :
        IF u.done
          THEN /\ gen' = [gen EXCEPT !.begun = @ + 1]
               /\ last' = [op |-> "generate", resp |-> u.resp, io |-> <<>>]
          ELSE /\ gen' = [gen EXCEPT !.begun = @ + 1, !.pending = Append(@, u.req)]
               /\ last' = [op |-> "generate awaits", req |-> u.req]
  /\ UNCHANGED <<jar, localStore, page, referrers, conversions, count, ui, flight, converting, exporting>>

\* The store answers the upsert of the i-th waiting call, and the call responds.
GenUpsert(i, storeDown) ==
  /\ i \in 1..Len(gen.pending)
  /\ \E req \in {gen.pending[i]} :
     \E r \in {GenerateFromUpsert(req, referrers, ServerNow + 1, storeDown)} :
        /\ referrers' = r.refs
        /\ last' = [op |-> "generate", resp |-> r.resp, io |-> <<"upsert referrers">>]
        /\ count' = [count EXCEPT !.generated = IF storeDown THEN @ ELSE @ + 1]
        /\ gen' = [gen EXCEPT
                     !.pending = RemoveAt(@, i),
                     !.answers = IF storeDown THEN @
                                 ELSE @ \cup {[sent |-> req.sent, address |-> req.address,
                                               ref_code |-> r.resp.body.ref_code,
                                               overlapped |-> Len(gen.pending) > 1]}]
  /\ UNCHANGED <<jar, localStore, page, conversions, ui, flight, converting, exporting>>

GenNext ==
  \/ \E b \in GenBodies : GenBegin(b)
  \/ \E i \in 1..MaxPending : \E storeDown \in BOOLEAN : GenUpsert(i, storeDown)

GenSpec == Init /\ [][GenNext]_vars

(***************************************************************************)
(* POST /api/referral/convert, split at its awaits of the store, and the   *)
(* steps of the whole pipeline                                             *)
(***************************************************************************)
\* The response of the waiting call c reaches the fetch of the page's call that
\* sent the request, if that fetch is still waiting (run 0: no page of the
\* model sent it).
Answer(u, c, resp) ==
  IF c.run # 0 /\ u.runs[c.run].net.stage = "serving"
    THEN [u EXCEPT !.runs[c.run].net = [stage |-> "response", resp |-> resp]]
    ELSE u

\* A call arrives with the browser's cookie and runs until it answers or
\* awaits the select of the referrer.
ConvertBegin(body, cookieValue) ==
  /\ count.attributed < MaxConverts
  /\ Len(converting) < MaxConverting
  /\ \E u \in {ConvertUntilSelect(body, cookieValue)} :
        IF u.done
          THEN /\ converting' = converting
               /\ last' = [op |-> "convert", resp |-> u.resp, io |-> u.io]
          ELSE /\ converting' = Append(converting, [stage |-> "select", call |-> u.call,
                                                     run |-> 0])
               /\ last' = [op |-> "convert awaits", stage |-> "select"]
  /\ UNCHANGED <<jar, localStore, page, referrers, conversions, count, gen, ui, flight, exporting>>

\* The store answers the select of the i-th waiting call: the call answers,
\* or sends the insert and waits again.
ConvertSelect(i, storeDown) ==
  /\ i \in 1..Len(converting)
  /\ converting[i].stage = "select"
  /\ \E sel \in {ConvertFromSelect(converting[i].call, referrers, storeDown)} :
        IF sel.done
          THEN /\ converting' = RemoveAt(converting, i)
               /\ ui' = Answer(ui, converting[i], sel.resp)
               /\ last' = [op |-> "convert", resp |-> sel.resp, io |-> sel.io]
          ELSE /\ converting' = [converting EXCEPT ![i] = [stage |-> "insert",
                                                           input |-> sel.input,
                                                           run |-> @.run]]
               /\ ui' = ui
               /\ last' = [op |-> "convert awaits", stage |-> "insert"]
  /\ UNCHANGED <<jar, localStore, page, referrers, conversions, count, gen, flight, exporting>>

\* The store answers the insert of the i-th waiting call, and the call
\* responds.
ConvertInsert(i, storeDown) ==
  /\ i \in 1..Len(converting)
  /\ converting[i].stage = "insert"
  /\ \E r \in {ConvertFromInsert(converting[i].input, conversions, ServerNow + 1, storeDown)} :
        /\ conversions' = r.convs
        /\ ui' = Answer(ui, converting[i], r.resp)
        /\ last' = [op |-> "convert", resp |-> r.resp, io |-> r.io]
        /\ count' = [count EXCEPT !.attributed = IF r.resp.body = AttributedBody(TRUE)
                                                   THEN @ + 1 ELSE @]
  /\ converting' = RemoveAt(converting, i)
  /\ UNCHANGED <<jar, localStore, page, referrers, gen, flight, exporting>>

Next ==
  \/ \E existing \in {RequestCookieValue(jar)} : \E q \in Queries : Visit(q, existing)
  \/ Capture
  \/ \E b \in GenerateCalls : gen.begun < MaxGenerates /\ GenBegin(b)
  \/ \E i \in 1..MaxPending : \E storeDown \in BOOLEAN : GenUpsert(i, storeDown)
  \/ \E cookieValue \in {RequestCookieValue(jar)} :
       \E b \in ConvertCalls : ConvertBegin(b, cookieValue)
  \/ \E i \in 1..MaxConverting : \E storeDown \in BOOLEAN : ConvertSelect(i, storeDown)
  \/ \E i \in 1..MaxConverting : \E storeDown \in BOOLEAN : ConvertInsert(i, storeDown)

Spec == Init /\ [][Next]_vars

(***************************************************************************)
(* The purchase section (MainSection): onClickCta, split at its awaits,    *)
(* and the conversion request it sends through trackConversion.            *)
(***************************************************************************)
MIN_USDC == 100
\* arbitrum.id
ArbitrumId == 42161

\* The hash of the n-th transaction the wallet sent (cut short; the page and
\* the route treat it as an opaque non-empty string).
TxHash(n) == "0x5e1d" \o NatToString(n)

\* The first allow-listed referrer has generated a code ...
ReferrersAfterGenerate ==
  GeneratePOST(GenerateBody(JsStr(AddressA)), <<>>, 1, FALSE).refs

\* ... and the buyer's browser holds no cookie, the cookie the middleware set
\* on a visit through that referrer's link, or one the route cannot decode.
BuyerCookies ==
  { NoCookie,
    ApplySetCookie(NoCookie, middleware(LinkA, JsUndefined, 1).setCookie[1]),
    StoredCookie("%25", FALSE, MAX_AGE_SECONDS, "foreign") }

\* The amounts in the purchase form.
Amounts == {100, 250}

\* baseChecksPass, the registration steps done and the balance sufficient.
baseChecksPass(amount) == amount > 0 /\ ~(amount > 0 /\ amount < MIN_USDC)

canClick(u) == baseChecksPass(u.amount) /\ u.loadingPhase = "idle"

\* The body trackConversion sends.
trackConversionBody(buyerAddress, txHash, chainId, amount) ==
  JsonStringify(JsObj(<< <<"buyer_address", JsStr(buyerAddress)>>,
                         <<"tx_hash", JsStr(txHash)>>,
                         <<"chain_id", JsNum(chainId)>>,
                         <<"amount", JsStr(ToJsString(JsNum(amount)))>> >>))

\* req.json() on the server.
RequestJson(text) ==
  LET r == JsonParse(text) IN IF r.ok THEN r.v ELSE BadJson

\* How trackConversion ends on a response: it returns when res.ok, else it
\* throws the response's error text.
trackConversionOn(resp) ==
  IF resp.status \in 200..299 THEN [thrown |-> FALSE]
  ELSE [thrown |-> TRUE,
        message |-> IF "error" \in DOMAIN resp.body THEN resp.body.error
                    ELSE "Failed to convert referral"]

\* How it ends when fetch rejects.
FetchRejected == [thrown |-> TRUE, message |-> "Failed to fetch"]

\* A call of onClickCta as it starts from the render r: where it stands, the
\* amount and the address it closes over, the hash its buy returned, its
\* conversion request and the number of requests it has sent.
Run(pc, r) ==
  [pc |-> pc, amount |-> r.amount, address |-> r.address, buyTx |-> "",
   net |-> [stage |-> "none"], calls |-> 0]

\* onClickCta's outer catch and finally for the i-th call: the error toast.
TransactionFailed(u, i, message) ==
  [u EXCEPT !.toasts = Append(@, [kind |-> "error", title |-> "Transaction failed",
                                  message |-> message]),
            !.errors = Append(@, message),
            !.loadingPhase = "idle",
            !.runs[i].pc = "done", !.runs[i].net = [stage |-> "none"]]

\* The i-th call from the end of trackConversion on, a failure of the
\* conversion reaching the outer catch.
purchaseShownUncaught(u, i, outcome) ==
  IF outcome.thrown THEN TransactionFailed(u, i, outcome.message)
  ELSE [u EXCEPT !.toasts = Append(@, [kind |-> "success", title |-> "Transaction sent",
                                       message |-> u.runs[i].buyTx]),
                 !.purchaseSuccessModalOpen = TRUE,
                 !.approvedThisSession = FALSE,
                 !.loadingPhase = "idle",
                 !.runs[i].pc = "done", !.runs[i].net = [stage |-> "none"]]

\* The i-th call from the end of trackConversion on: the inner catch logs a
\* failure, then the success toast and the modal, then finally.
purchaseShown(u, i, outcome) ==
  [u EXCEPT !.errors = IF outcome.thrown
                         THEN Append(@, "Conversion tracking failed: " \o outcome.message)
                         ELSE @,
            !.toasts = Append(@, [kind |-> "success", title |-> "Transaction sent",
                                  message |-> u.runs[i].buyTx]),
            !.purchaseSuccessModalOpen = TRUE,
            !.approvedThisSession = FALSE,
            !.loadingPhase = "idle",
            !.runs[i].pc = "done", !.runs[i].net = [stage |-> "none"]]

\* The messages the wallet and the chain helpers throw.
ChainErrors ==
  [approving |-> "User rejected the request",
   inviting |-> "PRESALE address is missing",
   round |-> "No active presale round is currently open.",
   buying |-> "Insufficient USDC allowance for presale contract.",
   receipt |-> "Transaction not found after 100 blocks"]

PurchaseInit ==
  /\ ui \in {MainSection(a) : a \in Amounts}
  /\ jar \in BuyerCookies
  /\ localStore = JsNull
  /\ page = [query |-> EmptyQuery, effectDone |-> TRUE]
  /\ referrers = ReferrersAfterGenerate
  /\ conversions = <<>>
  /\ last = [op |-> "init"]
  /\ count = [visits |-> 0, generated |-> 1, attributed |-> 0]
  /\ gen = [pending |-> <<>>, answers |-> {}, begun |-> 0]
  /\ flight = <<>>
  /\ converting = <<>>
  /\ exporting = <<>>

\* React renders the updates made outside an event.
Render ==
  /\ \E u \in {FlushAndCommit(ui)} :
        /\ u.rendered # ui.rendered
        /\ ui' = u
  /\ last' = [op |-> "render"]
  /\ UNCHANGED <<jar, localStore, page, referrers, conversions, count, gen, flight, converting, exporting>>

\* The effect on [amount, address] runs after the render that changed one of
\* them was committed.
Effect ==
  /\ EffectPending(ui)
  /\ ui' = ApprovalResetEffect(ui)
  /\ last' = [op |-> "effect"]
  /\ UNCHANGED <<jar, localStore, page, referrers, conversions, count, gen, flight, converting, exporting>>

\* readAmount finds another amount in the form's storage and sets it.
SetAmount(amount) ==
  /\ ui.changes < MaxChanges
  /\ amount # ui.amount
  /\ ui' = [ui EXCEPT !.amount = amount, !.changes = @ + 1]
  /\ last' = [op |-> "amount"]
  /\ UNCHANGED <<jar, localStore, page, referrers, conversions, count, gen, flight, converting, exporting>>

\* The wallet's active account changes.
SwitchAccount(address) ==
  /\ ui.changes < MaxChanges
  /\ address # ui.address
  /\ ui' = [ui EXCEPT !.address = address, !.changes = @ + 1]
  /\ last' = [op |-> "account"]
  /\ UNCHANGED <<jar, localStore, page, referrers, conversions, count, gen, flight, converting, exporting>>

\* The user closes the success modal: onClose, in the event of the click.
CloseModal ==
  /\ ui.rendered.purchaseSuccessModalOpen
  /\ ui' = FlushAndCommit([ui EXCEPT !.purchaseSuccessModalOpen = FALSE])
  /\ last' = [op |-> "close"]
  /\ UNCHANGED <<jar, localStore, page, referrers, conversions, count, gen, flight, converting, exporting>>

\* The user clicks the button (the anchor's onClick): onClickCta runs, with
\* the values of the last committed render, to its first await or to its
\* return. The return on !canClick stands inside the try, so the finally sets
\* loadingPhase to "idle" then too. The updates made in the click event are
\* committed before the next event.
ClickCta ==
  /\ ui.clicks < MaxPurchaseClicks
  /\ \E r \in {ui.rendered} :
        ui' = FlushAndCommit([ui EXCEPT
                 !.clicks = @ + 1,
                 !.loadingPhase = IF ~canClick(r) THEN "idle"
                                  ELSE IF ~r.approvedThisSession THEN "approve"
                                  ELSE "buy",
                 !.runs = IF ~canClick(r) THEN @
                          ELSE IF ~r.approvedThisSession THEN Append(@, Run("approving", r))
                          ELSE Append(@, Run("inviting", r))])
  /\ last' = [op |-> "click"]
  /\ UNCHANGED <<jar, localStore, page, referrers, conversions, count, gen, flight, converting, exporting>>

\* approveUsdcSpending of the i-th call settles.
ApproveSettles(i, ok) ==
  /\ i \in 1..Len(ui.runs)
  /\ ui.runs[i].pc = "approving"
  /\ ui' = IF ok
             THEN [ui EXCEPT !.toasts = Append(@, [kind |-> "success",
                                                   title |-> "Approval submitted",
                                                   message |-> TxHash(ui.txs)]),
                             !.txs = @ + 1,
                             !.approvedThisSession = TRUE,
                             !.loadingPhase = "idle",
                             !.runs[i].pc = "done"]
             ELSE TransactionFailed(ui, i, ChainErrors.approving)
  /\ last' = [op |-> "approve", ok |-> ok]
  /\ UNCHANGED <<jar, localStore, page, referrers, conversions, count, gen, flight, converting, exporting>>

\* The request trackConversion sends for the i-th call once its buy returned
\* the hash of the next transaction: the address and the amount are those of
\* the render the call was started from.
Tracking(u, i) ==
  [u EXCEPT !.txs = @ + 1,
            !.runs[i] = [@ EXCEPT
                           !.pc = "tracking", !.buyTx = TxHash(u.txs), !.calls = @ + 1,
                           !.net = [stage |-> "request",
                                    body |-> trackConversionBody(u.runs[i].address,
                                               TxHash(u.txs), ArbitrumId,
                                               u.runs[i].amount)]]]

\* onClickCta calling trackConversion as soon as the buy transaction is sent.
BuyStepSettlesBeforeReceipt(i, ok) ==
  /\ i \in 1..Len(ui.runs)
  /\ ui.runs[i].pc \in {"inviting", "round", "buying", "receipt"}
  /\ ui' = IF ~ok THEN TransactionFailed(ui, i, ChainErrors[ui.runs[i].pc])
           ELSE IF ui.runs[i].pc = "inviting" THEN [ui EXCEPT !.runs[i].pc = "round"]
           ELSE IF ui.runs[i].pc = "round" THEN [ui EXCEPT !.runs[i].pc = "buying"]
           ELSE Tracking(ui, i)
  /\ last' = [op |-> "buy step", ok |-> ok]
  /\ UNCHANGED <<jar, localStore, page, referrers, conversions, count, gen, flight, converting, exporting>>

\* getOrCreateInviteCode or getActiveRoundIndexStrict of the i-th call
\* settles, or its buyPresaleTokens takes its next step: the allowance read
\* and sendTransaction ("buying"), then waitForReceipt ("receipt"). When
\* buyPresaleTokens returns the hash, trackConversion sends its request.
BuyStepSettles(i, ok) ==
  /\ i \in 1..Len(ui.runs)
  /\ ui.runs[i].pc \in {"inviting", "round", "buying", "receipt"}
  /\ ui' = IF ~ok THEN TransactionFailed(ui, i, ChainErrors[ui.runs[i].pc])
           ELSE IF ui.runs[i].pc = "inviting" THEN [ui EXCEPT !.runs[i].pc = "round"]
           ELSE IF ui.runs[i].pc = "round" THEN [ui EXCEPT !.runs[i].pc = "buying"]
           ELSE IF ui.runs[i].pc = "buying" THEN [ui EXCEPT !.runs[i].pc = "receipt"]
           ELSE Tracking(ui, i)
  /\ last' = [op |-> "buy step", ok |-> ok]
  /\ UNCHANGED <<jar, localStore, page, referrers, conversions, count, gen, flight, converting, exporting>>

\* The request of the i-th call reaches the conversion endpoint, and the
\* route runs until it answers or awaits the select of the referrer. From
\* there the steps of the route are ConvertSelect and ConvertInsert, whether
\* or not the page still waits.
ServeConversion(i) ==
  /\ i \in 1..Len(ui.runs)
  /\ ui.runs[i].net.stage = "request"
  /\ Len(converting) < MaxServing
  /\ \E u \in {ConvertUntilSelect(RequestJson(ui.runs[i].net.body),
                                  RequestCookieValue(jar))} :
        IF u.done
          THEN /\ ui' = [ui EXCEPT !.runs[i].net = [stage |-> "response", resp |-> u.resp]]
               /\ converting' = converting
               /\ last' = [op |-> "convert", resp |-> u.resp, io |-> u.io]
          ELSE /\ ui' = [ui EXCEPT !.runs[i].net = [stage |-> "serving"]]
               /\ converting' = Append(converting, [stage |-> "select", call |-> u.call,
                                                     run |-> i])
               /\ last' = [op |-> "convert awaits", stage |-> "select"]
  /\ UNCHANGED <<jar, localStore, page, referrers, conversions, count, gen, flight, exporting>>

\* The response arrives and the i-th call runs to its end.
FetchResolves(i) ==
  /\ i \in 1..Len(ui.runs)
  /\ ui.runs[i].net.stage = "response"
  /\ ui' = purchaseShown(ui, i, trackConversionOn(ui.runs[i].net.resp))
  /\ last' = [op |-> "conversion settled", status |-> ui.runs[i].net.resp.status,
              tx |-> ui.runs[i].buyTx, toasts |-> ui.toasts, errors |-> ui.errors]
  /\ UNCHANGED <<jar, localStore, page, referrers, conversions, count, gen, flight, converting, exporting>>

\* The request fails in the network: before it reached the route, while the
\* route is at work (which goes on), or with the response on its way.
FetchRejects(i) ==
  /\ i \in 1..Len(ui.runs)
  /\ ui.runs[i].net.stage \in {"request", "serving", "response"}
  /\ ui' = purchaseShown(ui, i, FetchRejected)
  /\ last' = [op |-> "conversion settled", status |-> 0,
              tx |-> ui.runs[i].buyTx, toasts |-> ui.toasts, errors |-> ui.errors]
  /\ UNCHANGED <<jar, localStore, page, referrers, conversions, count, gen, flight, converting, exporting>>

\* The steps of the page and of the wallet and the chain it waits on.
PurchasePageNext ==
  \/ ClickCta
  \/ Render
  \/ Effect
  \/ \E a \in Amounts : ui.changes < MaxAmountChanges /\ SetAmount(a)
  \/ \E a \in {BuyerAddress, OtherBuyerAddress} :
       ui.changes < MaxAmountChanges /\ SwitchAccount(a)
  \/ CloseModal
  \/ \E i \in 1..MaxPurchaseClicks : \E ok \in BOOLEAN : ApproveSettles(i, ok)
  \/ \E i \in 1..MaxPurchaseClicks : \E ok \in BOOLEAN : BuyStepSettles(i, ok)

\* The steps of the conversion request: the network, the route and the store.
PurchaseRequestNext ==
  \/ \E i \in 1..MaxPurchaseClicks : ServeConversion(i)
  \/ \E k \in 1..MaxServing : \E storeDown \in BOOLEAN : ConvertSelect(k, storeDown)
  \/ \E k \in 1..MaxServing : \E storeDown \in BOOLEAN : ConvertInsert(k, storeDown)
  \/ \E i \in 1..MaxPurchaseClicks : FetchResolves(i)
  \/ \E i \in 1..MaxPurchaseClicks : FetchRejects(i)

PurchaseNext == PurchasePageNext \/ PurchaseRequestNext

PurchaseSpec == PurchaseInit /\ [][PurchaseNext]_vars

\* The page's own steps are taken when they can be; nothing makes the server
\* or the network answer the conversion request.
PurchaseLive == PurchaseSpec /\ WF_vars(PurchasePageNext)

(***************************************************************************)
(* GET /api/conversions/export                                             *)
(***************************************************************************)
\* The numbers Number() and Math.max/Math.min add to the integers: NaN,
\* -Infinity, and a number with a fraction, held as its sign, the integer
\* part of its magnitude and the digits after the point (no trailing zero).
JsNaN == [t |-> "number", nan |-> TRUE]
JsNegInfinity == [t |-> "number", inf |-> TRUE, neg |-> TRUE]
JsFraction(neg, n, frac) == [t |-> "number", neg |-> neg, n |-> n, frac |-> frac]

IsNaN(v) == v.t = "number" /\ "nan" \in DOMAIN v
\* An integer.
IsWhole(v) == v.t = "number" /\ DOMAIN v = {"t", "n"}

\* digits without its trailing zeros.
StripZeros(digits) ==
  LET keep == {i \in 1..Len(digits) : At(digits, i) # "0"}
  IN IF keep = {} THEN ""
     ELSE SubSeq(digits, 1, CHOOSE i \in keep : \A j \in keep : j <= i)

\* Number(s) for a string: white space at the ends is dropped, the empty
\* string is 0, a decimal literal with an optional sign is its value,
\* Infinity is itself and every other text is NaN.  Literals with an exponent
\* or a radix prefix, and integer parts of more than nine digits, are not
\* modelled.
Number(s) ==
  LET t == trim(s) IN
  IF t = "" THEN JsNum(0)
  ELSE LET neg == At(t, 1) = "-"
           a == IF At(t, 1) \in {"+", "-"} THEN 2 ELSE 1
           b == DigitsEnd(t, a)
           hasDot == b <= Len(t) /\ At(t, b) = "."
           c == IF hasDot THEN DigitsEnd(t, b + 1) ELSE b
           frac == IF hasDot THEN StripZeros(SubSeq(t, b + 1, c - 1)) ELSE ""
           n == DigitsValue(t, a, b)
       IN IF SubSeq(t, a, Len(t)) = "Infinity"
            THEN IF neg THEN JsNegInfinity ELSE JsInfinity
          ELSE IF c <= Len(t) \/ c - a = (IF hasDot THEN 1 ELSE 0) THEN JsNaN
          ELSE IF frac # "" THEN JsFraction(neg, n, frac)
          ELSE JsNum(IF neg THEN 0 - n ELSE n)

\* v < k and v > k for a number v that is not NaN and an integer k >= 0.
NumberLess(v, k) ==
  IF "inf" \in DOMAIN v THEN "neg" \in DOMAIN v
  ELSE IF "frac" \in DOMAIN v THEN v.neg \/ v.n < k
  ELSE v.n < k

NumberGreater(v, k) ==
  IF "inf" \in DOMAIN v THEN "neg" \notin DOMAIN v
  ELSE IF "frac" \in DOMAIN v THEN ~v.neg /\ v.n >= k
  ELSE v.n > k

\* Math.max(v, k) and Math.min(v, k): NaN if v is NaN.
MathMax(v, k) == IF IsNaN(v) THEN JsNaN ELSE IF NumberLess(v, k) THEN JsNum(k) ELSE v
MathMin(v, k) == IF IsNaN(v) THEN JsNaN ELSE IF NumberGreater(v, k) THEN JsNum(k) ELSE v

\* limitParam ? Math.min(Math.max(Number(limitParam), 1), 50000) : 20000
\* for limitParam = url.searchParams.get("limit"), a string or null.
ExportLimit(limitParam) ==
  IF Truthy(limitParam) THEN MathMin(MathMax(Number(limitParam.s), 1), 50000)
  ELSE JsNum(20000)

\* a < b for strings, by code units.
StringLess(a, b) ==
  LET m == IF Len(a) < Len(b) THEN Len(a) ELSE Len(b)
      diff == {i \in 1..m : At(a, i) # At(b, i)}
  IN IF diff = {} THEN Len(a) < Len(b)
     ELSE LET i == CHOOSE k \in diff : \A j \in diff : k <= j
          IN CharCode(At(a, i)) < CharCode(At(b, i))

\* order("created_at", { ascending: false }): rows with equal created_at keep
\* their insertion order (the store leaves their order open; the rows of the
\* model have distinct created_at).
OrderByCreatedAtDesc(convs) ==
  LET n == Len(convs)
      Before(j, i) == \/ StringLess(convs[i].created_at, convs[j].created_at)
                      \/ (convs[i].created_at = convs[j].created_at /\ j < i)
      rank(i) == Cardinality({j \in 1..n : Before(j, i)})
  IN [k \in 1..n |-> convs[CHOOSE i \in 1..n : rank(i) = k - 1]]

\* A text column as the store returns it.
TextColumn(v) == IF IsNullish(v) THEN JsNull ELSE JsStr(ToJsString(v))

\* A row of conversions as select("*") returns it.
SelectedRow(r) ==
  [id |-> JsNum(r.id),
   created_at |-> JsStr(r.created_at),
   referrer_address |-> JsStr(r.referrer_address),
   buyer_address |-> JsStr(r.buyer_address),
   tx_hash |-> JsStr(r.tx_hash),
   chain_id |-> r.chain_id,
   amount |-> TextColumn(r.amount),
   ref_code |-> JsStr(r.ref_code),
   utm_source |-> TextColumn(r.utm_source),
   utm_medium |-> TextColumn(r.utm_medium),
   utm_campaign |-> TextColumn(r.utm_campaign),
   utm_content |-> TextColumn(r.utm_content),
   utm_term |-> TextColumn(r.utm_term)]

\* from("conversions").select("*").order(...).limit(limit).throwOnError().
\* The client writes the limit into the request as text; what the store does
\* with a limit that is not an integer is the store's choice: lenient says
\* whether it reads the rows without a limit or refuses the request.
selectConversions(convs, limit, storeDown, lenient) ==
  LET ordered == OrderByCreatedAtDesc(convs)
      all == [k \in 1..Len(ordered) |-> SelectedRow(ordered[k])]
  IN IF storeDown THEN [error |-> TRUE, message |-> "fetch failed", data |-> <<>>]
     ELSE IF IsWhole(limit) /\ limit.n >= 0
       THEN [error |-> FALSE, message |-> "",
             data |-> SubSeq(all, 1, IF limit.n < Len(all) THEN limit.n ELSE Len(all))]
     ELSE IF lenient THEN [error |-> FALSE, message |-> "", data |-> all]
     ELSE [error |-> TRUE, message |-> "invalid limit", data |-> <<>>]

COLS ==
  << "created_at", "referrer_address", "buyer_address", "tx_hash", "chain_id",
     "amount", "ref_code", "utm_source", "utm_medium", "utm_campaign",
     "utm_content", "utm_term" >>

\* /[",\n\r]/.test(s)
CsvSpecial(s) == \E i \in 1..Len(s) : At(s, i) \in {"\"", ",", "\n", "\r"}

\* s.replace(/"/g, '""') on s[lo..hi]
RECURSIVE DoubleQuotes(_, _, _)
DoubleQuotes(s, lo, hi) ==
  IF lo > hi THEN ""
  ELSE IF lo = hi THEN (IF At(s, lo) = "\"" THEN "\"\"" ELSE At(s, lo))
  ELSE LET mid == (lo + hi) \div 2
       IN DoubleQuotes(s, lo, mid) \o DoubleQuotes(s, mid + 1, hi)

\* csvEscape putting a string between quotes without doubling the quotes in it.
csvEscapeQuotesKept(value) ==
  IF IsNullish(value) THEN ""
  ELSE LET s == IF IsStr(value) THEN value.s
                ELSE IF value.t \in {"number", "boolean"} THEN ToJsString(value)
                ELSE JsonStringify(value)
       IN IF value.t \notin {"number", "boolean"} /\ CsvSpecial(s)
            THEN "\"" \o s \o "\""
          ELSE s

csvEscape(value) ==
  IF IsNullish(value) THEN ""
  ELSE LET s == IF IsStr(value) THEN value.s
                ELSE IF value.t \in {"number", "boolean"} THEN ToJsString(value)
                ELSE JsonStringify(value)
       IN IF value.t \notin {"number", "boolean"} /\ CsvSpecial(s)
            THEN "\"" \o DoubleQuotes(s, 1, Len(s)) \o "\""
          ELSE s

\* parts.join(sep)
RECURSIVE JoinRange(_, _, _, _)
JoinRange(parts, sep, lo, hi) ==
  IF lo > hi THEN ""
  ELSE IF lo = hi THEN parts[lo]
  ELSE LET mid == (lo + hi) \div 2
       IN JoinRange(parts, sep, lo, mid) \o sep \o JoinRange(parts, sep, mid + 1, hi)

join(parts, sep) == JoinRange(parts, sep, 1, Len(parts))

\* String(n).padStart(2, "0")
pad(n) == (IF n < 10 THEN "0" ELSE "") \o NatToString(n)

\* tsForFilename at the instant IsoTime(now), on a server whose zone is UTC.
tsForFilename(now) == "20260101-0000" \o pad(now)

FileResponse(contentType, filename, body) ==
  [status |-> 200, contentType |-> contentType,
   disposition |-> "attachment; filename=\"" \o filename \o "\"",
   cacheControl |-> "no-store", body |-> body]

\* The lines of the CSV file for the rows read.
CsvLines(rows) ==
  <<join(COLS, ",")>>
    \o [k \in 1..Len(rows) |->
          join([c \in 1..Len(COLS) |-> csvEscape(rows[k][COLS[c]])], ",")]

\* dataForSheet: one record per row, its cells in the order of COLS, an
\* absent value as null.
dataForSheet(rows) ==
  [k \in 1..Len(rows) |-> [c \in 1..Len(COLS) |-> Coalesce(rows[k][COLS[c]], JsNull)]]

\* XLSX.utils.json_to_sheet(data), called without a header option: the header
\* row holds the keys of the records in the order they are met, so it is COLS
\* when there is a record and there is no header row when there is none.
json_to_sheet(data) ==
  [header |-> IF Len(data) = 0 THEN <<>> ELSE COLS, data |-> data]

\* GET to its await of the store without the check of format: every format
\* but xlsx is served as csv.
ExportUntilSelectAnyFormat(formatParam, limitParam) ==
  LET format == toLowerCase(Coalesce(formatParam, JsStr("csv")).s)
  IN [done |-> FALSE, format |-> IF format = "xlsx" THEN "xlsx" ELSE "csv",
      limit |-> ExportLimit(limitParam)]

\* GET(req) to its await of the store: formatParam and limitParam are
\* url.searchParams.get("format") and get("limit"), each a string or null.
\* An invalid format is answered at once; else the select is made with limit.
ExportUntilSelect(formatParam, limitParam) ==
  LET format == toLowerCase(Coalesce(formatParam, JsStr("csv")).s)
      limit == ExportLimit(limitParam)
  IN IF format # "csv" /\ format # "xlsx" THEN
       [done |-> TRUE,
        resp |-> JsonResponse(400, ErrorBody("Invalid format. Use csv or xlsx.")),
        limit |-> limit, io |-> <<>>]
     ELSE [done |-> FALSE, format |-> format, limit |-> limit]

\* GET from the answer res of the store on: a failed read is thrown to the
\* catch; else the clock is read for the file name (now) and the file built.
\* io lists the store calls made and limit is the number handed to limit().
ExportFromSelect(format, limit, res, now) ==
  LET filenameBase == "conversions-" \o tsForFilename(now)
  IN IF res.error THEN
       [resp |-> JsonResponse(500, ErrorBody(res.message)),
        limit |-> limit, io |-> <<"select conversions">>]
     ELSE IF format = "csv" THEN
       [resp |-> FileResponse("text/csv; charset=utf-8", filenameBase \o ".csv",
                              join(CsvLines(res.data), "\n")),
        limit |-> limit, io |-> <<"select conversions">>]
     ELSE
       [resp |-> FileResponse(
                   "application/vnd.openxmlformats-officedocument.spreadsheetml.sheet",
                   filenameBase \o ".xlsx",
                   [sheet |-> "conversions"] @@ json_to_sheet(dataForSheet(res.data))),
        limit |-> limit, io |-> <<"select conversions">>]

\* GET(req) with the store answering at once.
ExportGET(formatParam, limitParam, convs, storeDown, lenient, now) ==
  LET u == ExportUntilSelect(formatParam, limitParam)
  IN IF u.done THEN [resp |-> u.resp, limit |-> u.limit, io |-> u.io]
     ELSE ExportFromSelect(u.format, u.limit,
                           selectConversions(convs, u.limit, storeDown, lenient), now)

\* The export is asked for after purchases through two links: the one of
\* the whitelisted referrer, and the same with text in its utm parameters
\* that a CSV field has to quote.
LinkCsv == Query(JsStr(CodeA), JsStr("news, \"spring\""), JsNull, JsStr("a\nb"))

ExportCookies ==
  { ApplySetCookie(NoCookie, middleware(q, JsUndefined, 1).setCookie[1]) :
      q \in {LinkA, LinkCsv} }

\* A purchase whose hash and amount hold a comma and a quote.
BodyCsv ==
  ConvertBody(JsStr("0xdef"), JsStr("0x7,8"), JsNum(42161), JsStr("1,5 \"USDC\""))

ExportConvertBodies == {BodyA, BodyB, BodyCsv}

FormatParams == {JsNull, JsStr("csv"), JsStr("CSV"), JsStr("xlsx"), JsStr("pdf"), JsStr("")}

LimitParams ==
  { JsNull, JsStr(""), JsStr("1"), JsStr("2"), JsStr(" 2 "), JsStr("0"), JsStr("-3"),
    JsStr("50000"), JsStr("50001"), JsStr("2.0"), JsStr("1.5"), JsStr("abc"),
    JsStr("2x"), JsStr("Infinity") }

\* The calls of the export endpoint: <<format, limit, storeDown, lenient>>.
\* Every limit against a store that is up and reads a limit it cannot parse
\* as no limit, the limits that are no integer against a store that refuses
\* them, and every format against a store that is up and one that is down.
ExportCalls ==
  {<<JsNull, l, FALSE, TRUE>> : l \in LimitParams}
    \cup {<<JsStr("csv"), l, FALSE, FALSE>> : l \in {JsStr("1.5"), JsStr("abc"), JsStr("2")}}
    \cup {<<f, JsStr("1"), d, TRUE>> : f \in FormatParams, d \in BOOLEAN}

ExportInit ==
  /\ ui = MainSection(0)
  /\ jar \in ExportCookies
  /\ localStore = JsNull
  /\ page = [query |-> EmptyQuery, effectDone |-> TRUE]
  /\ referrers = ReferrersAfterGenerate
  /\ conversions = <<>>
  /\ last = [op |-> "init"]
  /\ count = [visits |-> 0, generated |-> 0, attributed |-> 0]
  /\ gen = [pending |-> <<>>, answers |-> {}, begun |-> 0]
  /\ flight = <<>>
  /\ converting = <<>>
  /\ exporting = <<>>

\* A call of the export endpoint arrives and runs until it answers or awaits
\* the store, whose select reads the table as it is now.
ExportBegin(formatParam, limitParam, storeDown, lenient) ==
  /\ Len(exporting) < MaxExporting
  /\ \E u \in {ExportUntilSelect(formatParam, limitParam)} :
        IF u.done
          THEN /\ exporting' = exporting
               /\ last' = [op |-> "export", format |-> formatParam,
                           limitParam |-> limitParam, storeDown |-> storeDown,
                           lenient |-> lenient, read |-> conversions,
                           resp |-> u.resp, limit |-> u.limit, io |-> u.io]
          ELSE /\ exporting' =
                    Append(exporting,
                           [formatParam |-> formatParam, limitParam |-> limitParam,
                            storeDown |-> storeDown, lenient |-> lenient,
                            format |-> u.format, limit |-> u.limit,
                            read |-> conversions,
                            res |-> selectConversions(conversions, u.limit,
                                                      storeDown, lenient)])
               /\ last' = [op |-> "export awaits"]
  /\ UNCHANGED <<jar, localStore, page, referrers, conversions, count, gen, ui, flight, converting>>

\* The answer of the store reaches the i-th export call, which reads the
\* clock and answers.
ExportResume(i) ==
  /\ i \in 1..Len(exporting)
  /\ \E e \in {exporting[i]} :
       \E r \in {ExportFromSelect(e.format, e.limit, e.res, ServerNow + 1)} :
          last' = [op |-> "export", format |-> e.formatParam,
                   limitParam |-> e.limitParam, storeDown |-> e.storeDown,
                   lenient |-> e.lenient, read |-> e.read,
                   resp |-> r.resp, limit |-> r.limit, io |-> r.io]
  /\ exporting' = RemoveAt(exporting, i)
  /\ UNCHANGED <<jar, localStore, page, referrers, conversions, count, gen, ui, flight, converting>>

ExportNext ==
  \/ \E cookieValue \in {RequestCookieValue(jar)} :
       \E b \in ExportConvertBodies : ConvertBegin(b, cookieValue)
  \/ \E i \in 1..MaxConverting : ConvertSelect(i, FALSE)
  \/ \E i \in 1..MaxConverting : ConvertInsert(i, FALSE)
  \/ \E c \in ExportCalls : ExportBegin(c[1], c[2], c[3], c[4])
  \/ \E i \in 1..MaxExporting : ExportResume(i)

ExportSpec == ExportInit /\ [][ExportNext]_vars

(***************************************************************************)
(* csvEscape on its own: a string is drawn and the function is applied.    *)
(***************************************************************************)
MaxFieldLen == 3

\* The characters of the strings drawn: a letter, a blank and the four
\* characters csvEscape tests for.
CsvAlphabet == <<"a", " ", ",", "\"", "\n", "\r">>

RECURSIVE StringsUpTo(_)
StringsUpTo(n) ==
  IF n = 0 THEN {""}
  ELSE {x \o CsvAlphabet[k] : x \in StringsUpTo(n - 1), k \in 1..Len(CsvAlphabet)}
         \cup StringsUpTo(n - 1)

CsvInit ==
  /\ ui = MainSection(0)
  /\ jar = NoCookie
  /\ localStore = JsNull
  /\ page = [query |-> EmptyQuery, effectDone |-> TRUE]
  /\ referrers = <<>>
  /\ conversions = <<>>
  /\ count = [visits |-> 0, generated |-> 0, attributed |-> 0]
  /\ gen = [pending |-> <<>>, answers |-> {}, begun |-> 0]
  /\ flight = <<>>
  /\ converting = <<>>
  /\ exporting = <<>>
  /\ last \in {[op |-> "field", value |-> s] : s \in StringsUpTo(MaxFieldLen)}

\* csvEscape is applied to the string drawn.
EscapeField ==
  /\ last.op = "field"
  /\ last' = [op |-> "escaped", value |-> last.value,
              field |-> csvEscape(JsStr(last.value))]
  /\ UNCHANGED <<jar, localStore, page, referrers, conversions, count, gen, ui, flight, converting, exporting>>

CsvNext == EscapeField

CsvSpec == CsvInit /\ [][CsvNext]_vars

(***************************************************************************)
(* Page requests that overlap.  The browser attaches the cookie it holds   *)
(* when it sends a request; the middleware answers the requests in any     *)
(* order; the browser applies each response's Set-Cookie when the response *)
(* arrives, in any order, and then mounts the page, whose ReferralCapture  *)
(* effect runs some time later.                                            *)
(***************************************************************************)
MaxRequests == 3

\* The second allow-listed address's link, and the pages requested.
LinkBPlain == Query(JsStr(CodeB), JsStr("social"), JsNull, JsNull)
RaceQueries == {EmptyQuery, LinkA, LinkBPlain, LinkShort}

\* The browser sends a request for a page.
SendRequest(query) ==
  /\ Len(flight) < MaxRequests
  /\ flight' = Append(flight, [query |-> query, existing |-> RequestCookieValue(jar),
                               stage |-> "sent", sentWith |-> jar])
  /\ last' = [op |-> "sent"]
  /\ UNCHANGED <<jar, localStore, page, referrers, conversions, count, gen, ui, converting, exporting>>

\* The middleware runs on the i-th request.
HandleRequest(i) ==
  /\ i \in 1..Len(flight)
  /\ flight[i].stage = "sent"
  /\ \E res \in {middleware(flight[i].query, flight[i].existing, count.visits + 1)} :
        flight' = [flight EXCEPT ![i] = [query |-> @.query, existing |-> @.existing,
                                         sentWith |-> @.sentWith,
                                         stage |-> "handled", res |-> res]]
  /\ count' = [count EXCEPT !.visits = @ + 1]
  /\ last' = [op |-> "handled", request |-> i]
  /\ UNCHANGED <<jar, localStore, page, referrers, conversions, gen, ui, converting, exporting>>

\* The response to the i-th request arrives: the browser applies its
\* Set-Cookie and mounts the page.
ApplyResponse(i) ==
  /\ i \in 1..Len(flight)
  /\ flight[i].stage = "handled"
  /\ jar' = IF flight[i].res.setCookie # <<>>
             THEN ApplySetCookie(jar, flight[i].res.setCookie[1]) ELSE jar
  /\ flight' = [flight EXCEPT ![i].stage = "mounted"]
  /\ last' = [op |-> "applied", request |-> i, jarBefore |-> jar]
  /\ UNCHANGED <<localStore, page, referrers, conversions, count, gen, ui, converting, exporting>>

\* The ReferralCapture effect of the i-th page runs.
CaptureOf(i) ==
  /\ i \in 1..Len(flight)
  /\ flight[i].stage = "mounted"
  /\ \E r \in {ReferralCapture(flight[i].query, jar, localStore, count.visits)} :
        /\ jar' = r.cookie
        /\ localStore' = r.stored
  /\ flight' = [flight EXCEPT ![i].stage = "done"]
  /\ last' = [op |-> "captured", request |-> i, jarBefore |-> jar]
  /\ UNCHANGED <<page, referrers, conversions, count, gen, ui, converting, exporting>>

RaceNext ==
  \/ \E q \in RaceQueries : SendRequest(q)
  \/ \E i \in 1..MaxRequests : HandleRequest(i)
  \/ \E i \in 1..MaxRequests : ApplyResponse(i)
  \/ \E i \in 1..MaxRequests : CaptureOf(i)

RaceSpec == Init /\ [][RaceNext]_vars

(***************************************************************************)
(* A browser that holds a urano_ref cookie this pipeline cannot read       *)
(***************************************************************************)
\* Stored cookie values that are not empty and hold no JSON: a blank, one the
\* framework cannot decode, one the route cannot decode, and plain text.
UnparsableValues == {"%20", "%", "%25", "garbage"}

\* Such cookies, left by a script of the page or by a server.
UnparsableCookies ==
  {StoredCookie(v, h, MAX_AGE_SECONDS, "foreign") : v \in UnparsableValues, h \in BOOLEAN}

HeldInit ==
  /\ ui = MainSection(0)
  /\ jar \in UnparsableCookies
  /\ localStore = JsNull
  /\ page = [query |-> EmptyQuery, effectDone |-> TRUE]
  /\ referrers = ReferrersAfterGenerate
  /\ conversions = <<>>
  /\ last = [op |-> "init"]
  /\ count = [visits |-> 0, generated |-> 1, attributed |-> 0]
  /\ gen = [pending |-> <<>>, answers |-> {}, begun |-> 0]
  /\ flight = <<>>
  /\ converting = <<>>
  /\ exporting = <<>>

HeldNext ==
  \/ \E existing \in {RequestCookieValue(jar)} : \E q \in Queries : Visit(q, existing)
  \/ Capture
  \/ \E cookieValue \in {RequestCookieValue(jar)} :
       \E b \in ConvertCalls : ConvertBegin(b, cookieValue)
  \/ \E i \in 1..MaxConverting : \E storeDown \in BOOLEAN : ConvertSelect(i, storeDown)
  \/ \E i \in 1..MaxConverting : \E storeDown \in BOOLEAN : ConvertInsert(i, storeDown)

HeldSpec == HeldInit /\ [][HeldNext]_vars

(***************************************************************************)
(* The purchase button: renders, clicks and the calls a click awaits       *)
(***************************************************************************)
MaxClicks == 3

\* The amounts the form can hold (one below the minimum) and the accounts the
\* wallet can have active.
CtaAmounts == {50, 100, 250}
NoAccount == "none"
CtaAccounts == {BuyerAddress, OtherBuyerAddress, NoAccount}

\* MainSection mounted with the steps done: the state, the last committed
\* render, the onClickCta calls made so far, and the amount and account of the
\* last approval that succeeded and has not been spent by a buy.
CtaSection(amount, address) ==
  Commit([amount |-> amount, address |-> address, loadingPhase |-> "idle",
          approvedThisSession |-> FALSE, purchaseSuccessModalOpen |-> FALSE,
          deps |-> <<amount, address>>, rendered |-> <<>>,
          runs |-> <<>>, toasts |-> <<>>, approval |-> <<>>, clicks |-> 0, changes |-> 0])

\* onClickCta to its first await or to its return, with the values of the
\* render r it belongs to. The return on !canClick stands inside the try, so
\* the finally sets loadingPhase to "idle" then too. The updates it makes in
\* the click event are committed before the next event.
onClickCta(u, r) ==
  IF ~canClick(r) THEN FlushAndCommit([u EXCEPT !.loadingPhase = "idle"])
  ELSE IF r.address = NoAccount
    THEN FlushAndCommit([u EXCEPT !.toasts = Append(@, "Transaction failed"),
                          !.loadingPhase = "idle"])
  ELSE IF ~r.approvedThisSession
    THEN FlushAndCommit([u EXCEPT !.loadingPhase = "approve",
                          !.runs = Append(@, [pc |-> "approving", amount |-> r.amount,
                                              address |-> r.address, approval |-> <<>>])])
  ELSE FlushAndCommit([u EXCEPT !.loadingPhase = "buy",
                        !.runs = Append(@, [pc |-> "inviting", amount |-> r.amount,
                                            address |-> r.address, approval |-> <<>>])])

\* onClickCta's catch and finally for the i-th call.
CtaFailed(u, i) ==
  [u EXCEPT !.toasts = Append(@, "Transaction failed"),
            !.loadingPhase = "idle",
            !.runs[i].pc = "done"]

\* The await the i-th call is at settles, and the call runs to its next await
\* or to its end.
CtaResume(u, i, ok) ==
  LET run == u.runs[i] IN
  IF run.pc = "approving" THEN
    IF ok THEN [u EXCEPT !.toasts = Append(@, "Approval submitted"),
                         !.approvedThisSession = TRUE,
                         !.loadingPhase = "idle",
                         !.approval = <<[amount |-> run.amount, address |-> run.address]>>,
                         !.runs[i].pc = "done"]
    ELSE CtaFailed(u, i)
  ELSE IF run.pc = "inviting" THEN
    IF ok THEN [u EXCEPT !.runs[i].pc = "round"] ELSE CtaFailed(u, i)
  ELSE IF run.pc = "round" THEN
    IF ok THEN [u EXCEPT !.runs[i].pc = "buying", !.runs[i].approval = u.approval]
    ELSE CtaFailed(u, i)
  ELSE IF run.pc = "buying" THEN
    IF ok THEN [u EXCEPT !.runs[i].pc = "receipt"] ELSE CtaFailed(u, i)
  ELSE IF run.pc = "receipt" THEN
    IF ok THEN [u EXCEPT !.runs[i].pc = "tracking", !.approval = <<>>]
    ELSE CtaFailed(u, i)
  ELSE [u EXCEPT !.toasts = Append(@, "Transaction sent"),
                 !.purchaseSuccessModalOpen = TRUE,
                 !.approvedThisSession = FALSE,
                 !.loadingPhase = "idle",
                 !.runs[i].pc = "done"]

CtaInit ==
  /\ ui \in {CtaSection(a, BuyerAddress) : a \in CtaAmounts}
  /\ jar = NoCookie
  /\ localStore = JsNull
  /\ page = [query |-> EmptyQuery, effectDone |-> TRUE]
  /\ referrers = <<>>
  /\ conversions = <<>>
  /\ last = [op |-> "init"]
  /\ count = [visits |-> 0, generated |-> 0, attributed |-> 0]
  /\ gen = [pending |-> <<>>, answers |-> {}, begun |-> 0]
  /\ flight = <<>>
  /\ converting = <<>>
  /\ exporting = <<>>

\* A click on the button reaches the handler of the last committed render.
CtaClick ==
  /\ ui.clicks < MaxClicks
  /\ \E u \in {onClickCta(ui, ui.rendered)} :
        /\ ui' = [u EXCEPT !.clicks = @ + 1]
        /\ last' = [op |-> "click", live |-> LiveRuns(ui) # {},
                    started |-> Len(u.runs) > Len(ui.runs)]
  /\ UNCHANGED <<jar, localStore, page, referrers, conversions, count, gen, flight, converting, exporting>>

\* The wallet, the chain or the conversion endpoint answers the i-th call.
CtaSettles(i, ok) ==
  /\ i \in LiveRuns(ui)
  /\ ui' = CtaResume(ui, i, ok)
  /\ last' = [op |-> "settled", run |-> i, ok |-> ok]
  /\ UNCHANGED <<jar, localStore, page, referrers, conversions, count, gen, flight, converting, exporting>>

CtaNext ==
  \/ \E a \in CtaAmounts : SetAmount(a)
  \/ \E a \in CtaAccounts : SwitchAccount(a)
  \/ Render
  \/ Effect
  \/ CloseModal
  \/ CtaClick
  \/ \E i \in 1..MaxClicks : \E ok \in BOOLEAN : CtaSettles(i, ok)

CtaSpec == CtaInit /\ [][CtaNext]_vars

(***************************************************************************)
(* Attribution capture                                                     *)
(***************************************************************************)
\* The cookies a request can carry: the browser's own and the foreign ones.
CarriedCookies == ForeignCookies \cup {jar}

\* What the framework hands the handlers for each foreign cookie.
ForeignExisting == {RequestCookieValue(c) : c \in ForeignCookies}

\* The query has a ref parameter.
HasRef(query) == IsStr(query.ref)

\* existing is a string that is not blank.
NonBlank(existing) == IsStr(existing) /\ trim(existing.s) # ""

\* C1 as stated: on every request that carries a non-empty urano_ref cookie
\* and a ref parameter, the middleware's response sets no cookie.
C1_NonEmptyCookieNeverOverwritten ==
  \A c \in CarriedCookies :
    (c.present /\ c.value # "")
      => LET existing == RequestCookieValue(c)
         IN \A q \in AllQueries :
              HasRef(q) => middleware(q, existing, BrowserNow + 1).setCookie = <<>>

\* C1, amended: on every request with a ref parameter whose urano_ref cookie,
\* as the framework hands it to the middleware, is a string that is not blank,
\* the response sets no cookie; and the browser's cookie after such a visit is
\* the cookie it held before.
C1_NonBlankCookieNeverOverwritten ==
  /\ \A existing \in ForeignExisting \cup {RequestCookieValue(jar)} :
       NonBlank(existing)
         => \A q \in AllQueries :
              HasRef(q) => middleware(q, existing, BrowserNow + 1).setCookie = <<>>
  /\ (last.op = "middleware" /\ NonBlank(RequestCookieValue(last.jarBefore)))
       => (last.res.setCookie = <<>> /\ jar = last.jarBefore)

\* A visit with a valid code other than the one the cookie holds has left the
\* cookie as it was.
C1_Witness ==
  /\ last.op = "middleware"
  /\ last.jarBefore.present
  /\ HasRef(page.query)
  /\ isValidRefCode(trim(page.query.ref.s))
  /\ StoredRefCode(last.jarBefore) # JsStr(trim(page.query.ref.s))
  /\ Truthy(StoredRefCode(last.jarBefore))
  /\ last.jarBefore.httpOnly
  /\ StoredRefCode(jar) = StoredRefCode(last.jarBefore)

\* C2: a step of the browser (the middleware on a visit, the ReferralCapture
\* effect) never changes the ref_code of a snapshot the urano_ref cookie holds.
C2_StoredRefCodeNeverChanges ==
  [][Truthy(StoredRefCode(jar)) => StoredRefCode(jar') = StoredRefCode(jar)]_vars

(***************************************************************************)
(* Conversion endpoint                                                     *)
(***************************************************************************)
\* A convert request in the current state: the tables as they are, the store's
\* clock at its next tick.
ConvertWith(cookieValue, body, fault) ==
  ConvertPOST(body, cookieValue, referrers, conversions, ServerNow + 1, fault)

\* The code the route looks up for a ref_code it read.
LookupKey(code) == trim(ToJsString(code))

\* The referrers rows with this ref_code.
RowsWithCode(refCode) == {i \in 1..Len(referrers) : referrers[i].ref_code = refCode}

LastRow(rows) == rows[Len(rows)]

\* rows is the conversions table with one row added at its end.
AddsOneRow(rows) ==
  /\ Len(rows) = Len(conversions) + 1
  /\ SubSeq(rows, 1, Len(conversions)) = conversions

\* C3: the first visit with a valid code C stores C in the cookie; and while a
\* Referrer row with ref_code C exists, a valid conversion body posted with a
\* cookie the middleware set for C is answered {ok:true, attributed:true} and
\* adds one row with ref_code C and that referrer's address (the store
\* answering the lookup and the insert).
C3_VisitThenPurchaseIsAttributed ==
  /\ (/\ last.op = "middleware"
      /\ ~last.jarBefore.present
      /\ HasRef(page.query)
      /\ isValidRefCode(trim(page.query.ref.s)))
       => (/\ jar.present
           /\ jar.by = "middleware"
           /\ StoredRefCode(jar) = JsStr(trim(page.query.ref.s)))
  /\ (jar.present /\ jar.by = "middleware")
       => LET cookieValue == RequestCookieValue(jar)
              code == RefCodeRead(cookieValue)
          IN /\ IsStr(code)
             /\ isValidRefCode(code.s)
             /\ \A i \in RowsWithCode(code.s) : \A b \in ValidConvertBodies :
                  LET r == ConvertWith(cookieValue, b, "none")
                  IN /\ r.resp = JsonResponse(200, AttributedBody(TRUE))
                     /\ Len(r.convs) = Len(conversions) + 1
                     /\ LastRow(r.convs).ref_code = code.s
                     /\ LastRow(r.convs).referrer_address = referrers[i].referrer_address

\* A purchase was attributed through a cookie the middleware set.
C3_Witness ==
  /\ last.op = "convert"
  /\ last.resp = JsonResponse(200, AttributedBody(TRUE))
  /\ jar.present
  /\ jar.by = "middleware"
  /\ conversions # <<>>
  /\ JsStr(LastRow(conversions).ref_code) = StoredRefCode(jar)
  /\ \E i \in RowsWithCode(LastRow(conversions).ref_code) :
       LastRow(conversions).referrer_address = referrers[i].referrer_address

\* The cookie value holds no attribution: it is absent or empty, or it does not
\* decode, or it does not parse to an object with a non-empty ref_code.
NoAttribution(cookieValue) == ~Truthy(RefCodeRead(cookieValue))

\* C4: with the browser's cookie holding no attribution, every valid body is
\* answered {ok:true, attributed:false} with status 200, without a referrer
\* lookup and without an insert.
C4_MissingAttributionIsNoError ==
  LET cookieValue == RequestCookieValue(jar)
  IN NoAttribution(cookieValue)
       => \A b \in ValidConvertBodies : \A f \in Faults :
            LET r == ConvertWith(cookieValue, b, f)
            IN /\ r.resp = JsonResponse(200, AttributedBody(FALSE))
               /\ r.io = <<"read cookie">>
               /\ r.convs = conversions

\* C5: when the cookie parses, its ref_code is non-empty and no Referrer row
\* has it, every valid body is answered {ok:true, attributed:false} with status
\* 200 and the Conversion table is unchanged (the store answering the lookup).
C5_UnknownCodeIsNoError ==
  \A cookieValue \in ForeignExisting \cup {RequestCookieValue(jar)} :
    LET code == RefCodeRead(cookieValue)
    IN (Truthy(code) /\ RowsWithCode(LookupKey(code)) = {})
         => \A b \in ValidConvertBodies : \A f \in {"none", "insert"} :
              LET r == ConvertWith(cookieValue, b, f)
              IN /\ r.resp = JsonResponse(200, AttributedBody(FALSE))
                 /\ r.io = <<"read cookie", "select referrers">>
                 /\ r.convs = conversions

\* A purchase made with a cookie whose code no referrer owns went unattributed.
C5_Witness ==
  /\ last.op = "convert"
  /\ last.resp = JsonResponse(200, AttributedBody(FALSE))
  /\ last.io = <<"read cookie", "select referrers">>
  /\ referrers # <<>>
  /\ Truthy(StoredRefCode(jar))
  /\ RowsWithCode(LookupKey(StoredRefCode(jar))) = {}

\* The row a call inserts, given the body, the attribution read and the
\* resolved referrer; txHash and refCode are what the claim says is stored.
RowAsClaimed(row, b, attribution, referrer, txHash, refCode) ==
  /\ row.referrer_address = toLowerCase(trim(referrer.referrer_address))
  /\ row.buyer_address = toLowerCase(trim(GetProp(b, "buyer_address").s))
  /\ row.tx_hash = txHash
  /\ row.chain_id = GetProp(b, "chain_id")
  /\ row.amount = Coalesce(GetProp(b, "amount"), JsNull)
  /\ row.ref_code = refCode
  /\ \A i \in 1..Len(UTM_KEYS) :
       row[UTM_KEYS[i]] = Coalesce(GetProp(attribution, UTM_KEYS[i]), JsNull)

\* C6 as stated: when the cookie's ref_code resolves to a Referrer, the call
\* answers {ok:true, attributed:true} and inserts one row holding the supplied
\* tx_hash and the cookie's ref_code, with the other fields as listed.
C6_RowHoldsSuppliedValues ==
  LET cookieValue == RequestCookieValue(jar)
      code == RefCodeRead(cookieValue)
  IN Truthy(code)
       => \A i \in RowsWithCode(LookupKey(code)) : \A b \in ValidConvertBodies :
            LET r == ConvertWith(cookieValue, b, "none")
            IN /\ r.resp = JsonResponse(200, AttributedBody(TRUE))
               /\ AddsOneRow(r.convs)
               /\ RowAsClaimed(LastRow(r.convs), b, ReadAttribution(cookieValue).v,
                               referrers[i], GetProp(b, "tx_hash").s, ToJsString(code))

\* C6, amended: as C6, the row holding the supplied tx_hash trimmed and the
\* cookie's ref_code converted to a string and trimmed (the store answering
\* the lookup and the insert).
C6_RowHoldsTrimmedValues ==
  \A cookieValue \in ForeignExisting \cup {RequestCookieValue(jar)} :
    LET code == RefCodeRead(cookieValue)
    IN Truthy(code)
         => \A i \in RowsWithCode(LookupKey(code)) : \A b \in ValidConvertBodies :
              LET r == ConvertWith(cookieValue, b, "none")
              IN /\ r.resp = JsonResponse(200, AttributedBody(TRUE))
                 /\ AddsOneRow(r.convs)
                 /\ RowAsClaimed(LastRow(r.convs), b, ReadAttribution(cookieValue).v,
                                 referrers[i], trim(GetProp(b, "tx_hash").s),
                                 trim(ToJsString(code)))

\* An attributed purchase stored a trimmed tx_hash, a tag the cookie held and
\* null for a tag it did not hold, and null for the omitted amount.
C6_Witness ==
  /\ last.op = "convert"
  /\ last.resp = JsonResponse(200, AttributedBody(TRUE))
  /\ conversions # <<>>
  /\ LastRow(conversions).tx_hash = "0x456"
  /\ LastRow(conversions).buyer_address = "0xdef"
  /\ LastRow(conversions).amount = JsNull
  /\ LastRow(conversions).utm_source = JsStr("referral")
  /\ LastRow(conversions).utm_term = JsNull

\* C7: the number of Conversion rows equals the number of calls answered
\* attributed:true; a call answered attributed:true adds exactly one row and
\* any other call leaves the table as it was.
C7_OneRowPerAttributedCall ==
  /\ Len(conversions) = count.attributed
  /\ LET cookieValue == RequestCookieValue(jar)
     IN \A b \in ConvertBodies : \A f \in Faults :
          LET r == ConvertWith(cookieValue, b, f)
          IN IF r.resp.body = AttributedBody(TRUE)
               THEN AddsOneRow(r.convs)
               ELSE r.convs = conversions

\* After one attributed call, a call that failed in the store added no row.
C7_Witness ==
  /\ last.op = "convert"
  /\ last.resp.status = 500
  /\ last.io = <<"read cookie", "select referrers", "insert conversions">>
  /\ count.attributed = 1
  /\ Len(conversions) = 1

\* C8: every body with buyer_address or tx_hash missing or not a non-empty
\* string, or chain_id missing or not a finite number, is answered 400 with an
\* error message, before the cookie is read or the store touched.
C8_InvalidBodyRejectedBeforeIO ==
  LET cookieValue == RequestCookieValue(jar)
  IN \A b \in InvalidConvertBodies : \A f \in Faults :
       LET r == ConvertWith(cookieValue, b, f)
       IN /\ r.resp.status = 400
          /\ DOMAIN r.resp.body = {"error"}
          /\ r.io = <<>>
          /\ r.convs = conversions

\* C9: a call whose referrer lookup or whose insert fails in the store is
\* answered 500 with an error body, never {ok:true, ...}, and adds no row.
C9_StoreFaultIs500 ==
  LET cookieValue == RequestCookieValue(jar)
  IN \A b \in ValidConvertBodies \cup {BodyInfinity} : \A f \in {"lookup", "insert"} :
       LET r == ConvertWith(cookieValue, b, f)
           failed == IF f = "lookup" THEN "select referrers" ELSE "insert conversions"
       IN (r.io # <<>> /\ r.io[Len(r.io)] = failed)
            => /\ r.resp.status = 500
               /\ DOMAIN r.resp.body = {"error"}
               /\ r.convs = conversions

\* One call failed at the lookup with 500 in a state where another, made with
\* the same cookie, was answered attributed:true.
C9_Witness ==
  /\ last.op = "convert"
  /\ last.resp = JsonResponse(500, ErrorBody("fetch failed"))
  /\ last.io = <<"read cookie", "select referrers">>
  /\ RowsWithCode(LookupKey(StoredRefCode(jar))) # {}

(***************************************************************************)
(* Code-generation endpoint                                                *)
(***************************************************************************)
\* C10: a body whose address is missing, empty or not a string is answered
\* 400; an address that, trimmed and lower-cased, is not allow-listed is
\* answered 403; both leave the Referrer table unchanged; every letter-case
\* variant of an allow-listed address is authorized.
C10_GenerateAuthorization ==
  \A b \in GenerateBodies :
    LET r == GeneratePOST(b, referrers, ServerNow + 1, FALSE)
        address == GetProp(b, "address")
        listed == {REFERRAL_WHITELIST[i] : i \in 1..Len(REFERRAL_WHITELIST)}
    IN IF ~Truthy(address) \/ ~IsStr(address)
         THEN r.resp.status = 400 /\ r.refs = referrers
       ELSE IF toLowerCase(trim(address.s)) \notin listed
         THEN r.resp.status = 403 /\ r.refs = referrers
       ELSE r.resp.status = 200

\* The rows of a referrers table with this normalized address.
RowsOfAddress(refs, address) ==
  {i \in 1..Len(refs) : refs[i].referrer_address = address}

\* C11: every generate call answered 200 for an address, whatever its spelling
\* and whatever other calls were in flight, returned the code of the normalized
\* address, so all calls for it returned the same code; once a call for the
\* address is answered the Referrer table holds exactly one row for it, with
\* that code; the table never holds two rows for one address.
C11_GenerateIsIdempotent ==
  /\ \A x \in gen.answers :
       /\ x.address = normalizeAddress(x.sent)
       /\ x.ref_code = makeRefCodeForAddress(x.address, 12)
       /\ \A y \in gen.answers : y.address = x.address => y.ref_code = x.ref_code
       /\ Cardinality(RowsOfAddress(referrers, x.address)) = 1
       /\ \A k \in RowsOfAddress(referrers, x.address) : referrers[k].ref_code = x.ref_code
  /\ \A i \in 1..Len(referrers) : \A j \in 1..Len(referrers) :
       referrers[i].referrer_address = referrers[j].referrer_address => i = j

\* Three calls for one address, spelled three ways, were answered, two of them
\* while another was waiting on the store; the table holds one row.
C11_Witness ==
  /\ Cardinality(gen.answers) = 3
  /\ \A x \in gen.answers : x.address = AddressA
  /\ Cardinality({x \in gen.answers : x.overlapped}) >= 2
  /\ Len(referrers) = 1

\* Addresses makeRefCodeForAddress is applied to: allow-listed or not, in lower
\* or mixed case, and the addresses the calls so far sent.
RefCodeAddresses ==
  {AddressA, AddressAMixed, AddressB, AddressOther}
    \cup {gen.pending[i].sent : i \in 1..Len(gen.pending)}
    \cup {x.sent : x \in gen.answers}

\* C12: for every address A, makeRefCodeForAddress returns for A in upper case,
\* for A in lower case and for A with white space around it the code it
\* returns for A (and, being a function of the address and the secret, the
\* same code on every call with A); the code has the length asked for.
C12_RefCodeIgnoresCaseAndBlanks ==
  \A a \in RefCodeAddresses :
    LET code == makeRefCodeForAddress(a, 12)
    IN /\ makeRefCodeForAddress(toUpperCase(a), 12) = code
       /\ makeRefCodeForAddress(toLowerCase(a), 12) = code
       /\ makeRefCodeForAddress("\t " \o a \o " \n", 12) = code
       /\ Len(code) = 12

\* Calls that sent one address in upper case and in lower case were answered
\* with one code.
C12_Witness ==
  \E x \in gen.answers : \E y \in gen.answers :
    /\ x.sent = toUpperCase(AddressA)
    /\ y.sent = AddressA
    /\ x.ref_code = y.ref_code
    /\ x.ref_code = makeRefCodeForAddress(AddressA, 12)

(***************************************************************************)
(* Attribution middleware: format rule and pass-through                    *)
(***************************************************************************)
\* What a request carries as urano_ref where the cookie's content plays no
\* part: nothing, or a blank.
NoExisting == {JsUndefined, JsStr(" ")}

\* C13 as stated: a request whose ref value is not 3 to 64 characters of
\* [A-Za-z0-9_-] gets the response of a request with no ref parameter, and a
\* visit with such a value leaves the browser's cookie as it was.
C13_InvalidRefIgnored ==
  /\ \A q \in AllQueries : \A existing \in NoExisting :
       (HasRef(q) /\ ~isValidRefCode(q.ref.s))
         => middleware(q, existing, BrowserNow + 1)
              = middleware(EmptyQuery, existing, BrowserNow + 1)
  /\ (last.op = "middleware" /\ HasRef(page.query) /\ ~isValidRefCode(page.query.ref.s))
       => (last.res = PassThrough /\ jar = last.jarBefore)

\* C13, amended: as C13, for a ref value that, with the white space at its
\* ends removed, is not 3 to 64 characters of [A-Za-z0-9_-].
C13_InvalidTrimmedRefIgnored ==
  /\ \A q \in AllQueries : \A existing \in NoExisting :
       (HasRef(q) /\ ~isValidRefCode(trim(q.ref.s)))
         => middleware(q, existing, BrowserNow + 1)
              = middleware(EmptyQuery, existing, BrowserNow + 1)
  /\ (last.op = "middleware" /\ HasRef(page.query)
        /\ ~isValidRefCode(trim(page.query.ref.s)))
       => (last.res = PassThrough /\ jar = last.jarBefore)

\* A browser without a cookie visited with a code of two characters and still
\* has no cookie.
C13_Witness ==
  /\ last.op = "middleware"
  /\ page.query = LinkShort
  /\ ~page.effectDone
  /\ ~last.jarBefore.present
  /\ jar = NoCookie

\* C14: on every request (no ref, malformed ref, a cookie already there, a new
\* attribution) the middleware's response is NextResponse.next(), carrying at
\* most one Set-Cookie, for urano_ref; and after a visit the browser's cookie
\* is the one it held or the one that response set.
C14_MiddlewareAlwaysPassesThrough ==
  /\ \A q \in AllQueries : \A existing \in {JsUndefined, JsStr("{}")} :
       LET res == middleware(q, existing, BrowserNow + 1)
       IN /\ DOMAIN res = {"next", "setCookie"}
          /\ res.next
          /\ Len(res.setCookie) <= 1
          /\ \A i \in 1..Len(res.setCookie) : res.setCookie[i].name = COOKIE_KEY
  /\ last.op = "middleware"
       => /\ last.res.next
          /\ IF last.res.setCookie = <<>> THEN jar = last.jarBefore
             ELSE jar = ApplySetCookie(last.jarBefore, last.res.setCookie[1])

\* A visit that set the cookie was passed through all the same.
C14_Witness ==
  /\ last.op = "middleware"
  /\ last.res.next
  /\ last.res.setCookie # <<>>
  /\ jar.present
  /\ jar.by = "middleware"
  /\ ~page.effectDone

(***************************************************************************)
(* Purchase section                                                        *)
(***************************************************************************)
\* The toast onClickCta shows for a purchase whose transaction is tx.
TransactionSent(tx) == [kind |-> "success", title |-> "Transaction sent", message |-> tx]

\* C15: when the conversion request of a purchase has settled (a 2xx answer,
\* an error status, or a rejected fetch), the page has added the success toast
\* of that purchase and nothing else, the success modal is open, the call has
\* returned and loadingPhase is idle again; a failed conversion has added one
\* line to the console and a successful one none; and every "Transaction
\* failed" toast ever shown carries an error of the wallet or the chain, never
\* one of the conversion call.
C15_PurchaseSucceedsDespiteConversion ==
  /\ last.op = "conversion settled"
       => /\ ui.toasts = Append(last.toasts, TransactionSent(last.tx))
          /\ ui.purchaseSuccessModalOpen
          /\ ui.loadingPhase = "idle"
          /\ \E i \in 1..Len(ui.runs) : ui.runs[i].buyTx = last.tx /\ ~Live(ui.runs[i])
          /\ IF last.status \in 200..299 THEN ui.errors = last.errors
             ELSE /\ Len(ui.errors) = Len(last.errors) + 1
                  /\ SubSeq(ui.errors, 1, Len(last.errors)) = last.errors
                  /\ SubSeq(ui.errors[Len(ui.errors)], 1, 28) = "Conversion tracking failed: "
  /\ \A i \in 1..Len(ui.toasts) :
       ui.toasts[i].kind = "error"
         => \E k \in DOMAIN ChainErrors : ui.toasts[i].message = ChainErrors[k]

\* The conversion endpoint answered 500 and the purchase is shown as sent.
C15_Witness ==
  /\ last.op = "conversion settled"
  /\ last.status = 500
  /\ ui.purchaseSuccessModalOpen
  /\ ui.toasts[Len(ui.toasts)] = TransactionSent(last.tx)
  /\ ui.errors # <<>>
  /\ conversions = <<>>

\* C16: once buyPresaleTokens has returned the hash of a purchase, the success
\* toast of that purchase is eventually shown, whether or not the conversion
\* request ever returns.
C16_SuccessShownWithoutWaiting ==
  \A n \in 0..MaxPurchaseClicks :
    (\E i \in 1..Len(ui.runs) : ui.runs[i].pc = "tracking" /\ ui.runs[i].buyTx = TxHash(n))
      ~> (\E j \in 1..Len(ui.toasts) : ui.toasts[j] = TransactionSent(TxHash(n)))

(***************************************************************************)
(* Conversion endpoint: repeated calls                                     *)
(***************************************************************************)
\* Two rows that differ at most in id and created_at.
SamePurchase(x, y) ==
  [x EXCEPT !.id = 0, !.created_at = ""] = [y EXCEPT !.id = 0, !.created_at = ""]

\* The second of two calls with one body and one cookie, the first having
\* answered r1: both attributed, and two rows added that hold the body's
\* tx_hash and differ at most in id and created_at.
RepeatedCall(b, cookieValue, r1) ==
  LET r2 == ConvertPOST(b, cookieValue, referrers, r1.convs, ServerNow + 2, "none")
      n == Len(conversions)
  IN /\ r1.resp = JsonResponse(200, AttributedBody(TRUE))
     /\ r2.resp = JsonResponse(200, AttributedBody(TRUE))
     /\ Len(r2.convs) = n + 2
     /\ SubSeq(r2.convs, 1, n) = conversions
     /\ r2.convs[n + 1].tx_hash = trim(GetProp(b, "tx_hash").s)
     /\ SamePurchase(r2.convs[n + 1], r2.convs[n + 2])
     /\ r2.convs[n + 1].id # r2.convs[n + 2].id

\* C17: while the cookie's ref_code resolves to a Referrer, two calls with the
\* same valid body and that cookie (the store answering) both return
\* attributed:true and add two rows with the body's tx_hash.
C17_NoDeduplicationByTxHash ==
  LET cookieValue == RequestCookieValue(jar)
      code == RefCodeRead(cookieValue)
  IN (Truthy(code) /\ RowsWithCode(LookupKey(code)) # {})
       => \A b \in ValidConvertBodies :
            RepeatedCall(b, cookieValue, ConvertWith(cookieValue, b, "none"))

\* Two calls for one purchase were answered attributed:true and the table
\* holds two rows for it.
C17_Witness ==
  /\ last.op = "convert"
  /\ last.resp = JsonResponse(200, AttributedBody(TRUE))
  /\ count.attributed = 2
  /\ Len(conversions) = 2
  /\ conversions[1].tx_hash = conversions[2].tx_hash
  /\ SamePurchase(conversions[1], conversions[2])

(***************************************************************************)
(* Export                                                                  *)
(***************************************************************************)
\* C18: for every value of the limit parameter the number the route hands to
\* the store query as the row limit is an integer or a fraction that lies in
\* [1, 50000], and it is 20000 when the parameter is absent.
C18_ExportLimitClamped ==
  (last.op = "export" /\ last.io # <<>>)
    => /\ ~IsNaN(last.limit)
       /\ ~NumberLess(last.limit, 1)
       /\ ~NumberGreater(last.limit, 50000)
       /\ (last.limitParam = JsNull => last.limit = JsNum(20000))

\* The format parameter is present and is not csv or xlsx in any case.
InvalidFormat(formatParam) ==
  IsStr(formatParam) /\ toUpperCase(formatParam.s) \notin {"CSV", "XLSX"}

\* The read of the conversions fails: the store is down, or it refuses a
\* limit that is not an integer.
ReadFails(e) == e.storeDown \/ (~IsWhole(e.limit) /\ ~e.lenient)

\* C19: an export whose format is neither csv nor xlsx, whatever its case, is
\* answered 400 with an error body and reads nothing from the store; an
\* export with a valid or absent format whose store read fails is answered
\* 500 with an error body and no file.
C19_ExportErrorsSurface ==
  last.op = "export"
    => /\ InvalidFormat(last.format)
            => /\ last.resp.status = 400
               /\ DOMAIN last.resp.body = {"error"}
               /\ last.io = <<>>
       /\ (~InvalidFormat(last.format) /\ ReadFails(last))
            => /\ last.resp.status = 500
               /\ DOMAIN last.resp.body = {"error"}
               /\ last.resp.body.error # ""
               /\ DOMAIN last.resp = {"status", "body"}

\* An export in a format the route does not know was asked of a store that
\* is down and holds two rows.
C19_Witness ==
  /\ last.op = "export"
  /\ InvalidFormat(last.format)
  /\ last.storeDown
  /\ Len(conversions) = 2
  /\ last.resp.status = 400

\* A reader of CSV text (RFC 4180).  CsvScan gives, for s[lo..hi], whether
\* the piece holds an odd number of quotes and the positions it selects when
\* an even (out) and an odd (in) number of quotes precede it: the commas and
\* line breaks outside quotes for "separators"; for "content" every character
\* but the second quote of each pair.
RECURSIVE CsvScan(_, _, _, _)
CsvScan(s, lo, hi, what) ==
  IF lo > hi THEN [flip |-> FALSE, out |-> <<>>, in |-> <<>>]
  ELSE IF lo = hi THEN
    LET c == At(s, lo) IN
    IF c = "\"" THEN [flip |-> TRUE,
                      out |-> IF what = "content" THEN <<lo>> ELSE <<>>, in |-> <<>>]
    ELSE IF what = "content" THEN [flip |-> FALSE, out |-> <<lo>>, in |-> <<lo>>]
    ELSE IF c \in {",", "\n", "\r"} THEN [flip |-> FALSE, out |-> <<lo>>, in |-> <<>>]
    ELSE [flip |-> FALSE, out |-> <<>>, in |-> <<>>]
  ELSE LET mid == (lo + hi) \div 2
           l == CsvScan(s, lo, mid, what)
           r == CsvScan(s, mid + 1, hi, what)
       IN [flip |-> (l.flip # r.flip),
           out |-> l.out \o (IF l.flip THEN r.in ELSE r.out),
           in |-> l.in \o (IF l.flip THEN r.out ELSE r.in)]

\* The value of a field: what is between the quotes of a quoted field, each
\* pair of quotes read as one, and the text itself of any other field.
CsvFieldValue(f) ==
  IF Len(f) >= 2 /\ At(f, 1) = "\"" /\ At(f, Len(f)) = "\"" THEN
    LET inner == SubSeq(f, 2, Len(f) - 1)
        keep == CsvScan(inner, 1, Len(inner), "content").out
    IN JoinRange([k \in 1..Len(keep) |-> At(inner, keep[k])], "", 1, Len(keep))
  ELSE f

\* The records of a CSV text, each the sequence of its field values.
ParseCsv(s) ==
  LET seps == CsvScan(s, 1, Len(s), "separators").out
      n == Len(seps) + 1
      from(k) == IF k = 1 THEN 1 ELSE seps[k - 1] + 1
      to(k) == IF k = n THEN Len(s) ELSE seps[k] - 1
      ends == {k \in 1..n : k = n \/ At(s, seps[k]) \in {"\n", "\r"}}
      endOf(r) == CHOOSE e \in ends : Cardinality({x \in ends : x < e}) = r - 1
      startOf(r) == IF r = 1 THEN 1 ELSE endOf(r - 1) + 1
  IN [r \in 1..Cardinality(ends) |->
        [c \in 1..(endOf(r) - startOf(r) + 1) |->
           CsvFieldValue(SubSeq(s, from(startOf(r) + c - 1), to(startOf(r) + c - 1)))]]

\* The text of a column of a row as the recorder wrote it: null is the empty
\* text, a number is written in decimal.
WrittenText(row, col) ==
  IF col \in {"created_at", "referrer_address", "buyer_address", "tx_hash", "ref_code"}
    THEN row[col]
  ELSE IF IsNullish(row[col]) THEN "" ELSE ToJsString(row[col])

\* The CSV text lists, under the header of the fixed columns, the most recent
\* rows of convs from the newest to the oldest, each with the values written.
ListsMostRecent(text, convs) ==
  LET recs == ParseCsv(text)
      n == Len(convs)
      k == Len(recs) - 1
  IN /\ Len(recs) >= 1
     /\ recs[1] = COLS
     /\ k <= n
     /\ \A r \in 1..k :
          recs[r + 1] = [c \in 1..Len(COLS) |-> WrittenText(convs[n + 1 - r], COLS[c])]
     /\ \A r \in 1..(k - 1) : StringLess(recs[r + 2][1], recs[r + 1][1])
     /\ \A i \in 1..(n - k) : StringLess(convs[i].created_at, recs[k + 1][1])

\* The export answered with a CSV file.
CsvExported ==
  /\ last.op = "export"
  /\ last.resp.status = 200
  /\ "contentType" \in DOMAIN last.resp
  /\ last.resp.contentType = "text/csv; charset=utf-8"

\* C20: a CSV export asked of a store that is up, whose table holds rows the
\* recorder wrote when the export reads it, is answered with a file that lists
\* them with their values in the fixed column order, newest first, and holds
\* at most limit data rows, the most recent ones, limit being a number,
\* whatever the limit parameter.
C20_CsvListsAtMostLimitRows ==
  (/\ last.op = "export"
   /\ Coalesce(last.format, JsStr("csv")) = JsStr("csv")
   /\ ~last.storeDown
   /\ last.read # <<>>)
    => /\ CsvExported
       /\ ListsMostRecent(last.resp.body, last.read)
       /\ ~IsNaN(last.limit)
       /\ ~NumberLess(last.limit, Len(ParseCsv(last.resp.body)) - 1)

\* The number of double quotes in s.
QuoteCount(s) == Cardinality({i \in 1..Len(s) : At(s, i) = "\""})

\* C21: for every string that holds a comma, a double quote or a line break
\* csvEscape gives a field between double quotes with every quote of the
\* string doubled, which a CSV reader reads back as the string, alone in its
\* record; every other string is given unchanged.
C21_CsvEscapeRoundTrip ==
  last.op = "escaped"
    => LET s == last.value
           f == last.field
       IN IF \E i \in 1..Len(s) : At(s, i) \in {",", "\"", "\n", "\r"}
            THEN /\ Len(f) = Len(s) + 2 + QuoteCount(s)
                 /\ At(f, 1) = "\"" /\ At(f, Len(f)) = "\""
                 /\ QuoteCount(f) = 2 + 2 * QuoteCount(s)
                 /\ CsvFieldValue(f) = s
                 /\ ParseCsv(f) = << <<s>> >>
          ELSE f = s

\* A string with a quote, a comma and a carriage return was escaped.
C21_Witness ==
  /\ last.op = "escaped"
  /\ last.value = "\",\r"
  /\ last.field = "\"\"\",\r\""

(***************************************************************************)
(* Referral codes: which digits are kept                                   *)
(***************************************************************************)
\* The base-36 rendering of the 80-bit prefix of the hash of an address.
TokenOf(address) ==
  BigIntToString36(slice0(Sha256Hex(normalizeAddress(address) \o ":" \o REFERRAL_CODE_SECRET), 20))

\* The lengths a code is asked in.
RefCodeLengths == {4, 8, 12}

\* C22 as stated: when the rendering has more digits than the length asked
\* for, the code is the last (low-order) length digits of the rendering.
C22_LowOrderDigitsKept ==
  /\ \A a \in RefCodeAddresses : \A n \in RefCodeLengths :
       LET token == TokenOf(a)
       IN Len(token) > n
            => makeRefCodeForAddress(a, n) = SubSeq(token, Len(token) - n + 1, Len(token))
  /\ \A x \in gen.answers :
       LET token == TokenOf(x.sent)
       IN Len(token) > 12 => x.ref_code = SubSeq(token, Len(token) - 11, Len(token))

\* C22, amended: when the rendering has more digits than the length asked
\* for, the code is the first (high-order) length digits of the rendering,
\* and the digits on the right are cut off.
C22_HighOrderDigitsKept ==
  /\ \A a \in RefCodeAddresses : \A n \in RefCodeLengths :
       LET token == TokenOf(a)
       IN Len(token) > n => makeRefCodeForAddress(a, n) = SubSeq(token, 1, n)
  /\ \A x \in gen.answers :
       LET token == TokenOf(x.sent)
       IN Len(token) > 12 => x.ref_code = SubSeq(token, 1, 12)

\* A generate call was answered with a code cut from a longer rendering
\* whose first and last twelve digits differ.
C22_Witness ==
  \E x \in gen.answers :
    LET token == TokenOf(x.sent)
    IN /\ Len(token) > 12
       /\ SubSeq(token, 1, 12) # SubSeq(token, Len(token) - 11, Len(token))
       /\ x.ref_code = SubSeq(token, 1, 12)

(***************************************************************************)
(* The stores over time                                                    *)
(***************************************************************************)
\* C23: no step removes or changes a row of conversions, and no step removes
\* a row of referrers or changes its address, its code or its created_at:
\* a generate call changes last_generated_at alone.
C23_StoresAppendOnly ==
  [][ /\ Len(conversions') >= Len(conversions)
      /\ \A i \in 1..Len(conversions) : conversions'[i] = conversions[i]
      /\ Len(referrers') >= Len(referrers)
      /\ \A i \in 1..Len(referrers) :
           /\ referrers'[i].referrer_address = referrers[i].referrer_address
           /\ referrers'[i].ref_code = referrers[i].ref_code
           /\ referrers'[i].created_at = referrers[i].created_at ]_vars

\* A code was generated again for an address after a conversion was written:
\* the referrer's row has a later last_generated_at than created_at, and the
\* conversion, written in between, is still there.
C23_Witness ==
  /\ Len(conversions) >= 1
  /\ \E i \in 1..Len(referrers) :
       /\ referrers[i].last_generated_at # referrers[i].created_at
       /\ StringLess(conversions[1].created_at, referrers[i].last_generated_at)

\* ---------------------------------------------------------------------------
\* Concurrent first visits

\* The i-th request carried no urano_ref cookie and a valid ref code.
FirstVisit(i) ==
  /\ flight[i].existing = JsUndefined
  /\ ~flight[i].sentWith.present
  /\ Truthy(flight[i].query.ref)
  /\ isValidRefCode(trim(flight[i].query.ref.s))

\* The i-th request carried a cookie the middleware had set.
LaterVisit(i) ==
  /\ flight[i].sentWith.present
  /\ flight[i].sentWith.by = "middleware"

Answered(i) == flight[i].stage # "sent"
Applied(i) == flight[i].stage \in {"mounted", "done"}

\* What the jar holds once the response to the i-th request is applied.
SnapshotOf(i) == ApplySetCookie(NoCookie, flight[i].res.setCookie[1])

\* C24: requests sent without the urano_ref cookie and with a valid code are
\* all answered with a Set-Cookie whose snapshot carries the request's own code
\* and source; when such a response is applied the jar holds exactly its
\* snapshot, so from the first application on the jar is the snapshot of the
\* response applied last, never empty and never a mixture; a request sent with
\* that cookie is answered without Set-Cookie, and neither its response nor any
\* page's ReferralCapture changes the jar.
C24_ConcurrentFirstVisits ==
  /\ \A i \in 1..Len(flight) :
        /\ FirstVisit(i) /\ Answered(i) => flight[i].res.setCookie # <<>>
        /\ LaterVisit(i) /\ Answered(i) => flight[i].res.setCookie = <<>>
  /\ last.op = "handled" /\ FirstVisit(last.request) =>
        /\ StoredRefCode(SnapshotOf(last.request))
              = JsStr(trim(flight[last.request].query.ref.s))
        /\ GetProp(ReadAttribution(RequestCookieValue(SnapshotOf(last.request))).v,
                   "utm_source") = flight[last.request].query.utm_source
  /\ (\E i \in 1..Len(flight) : FirstVisit(i) /\ Applied(i)) =>
        \E i \in 1..Len(flight) : FirstVisit(i) /\ Applied(i) /\ jar = SnapshotOf(i)
  /\ last.op = "applied" /\ FirstVisit(last.request) => jar = SnapshotOf(last.request)
  /\ last.op = "applied" /\ LaterVisit(last.request) => jar = last.jarBefore
  /\ last.op = "captured" /\ last.jarBefore.present /\ last.jarBefore.by = "middleware" =>
        jar = last.jarBefore

\* Two first visits with codes A and B overlapped, A's response was applied and
\* then B's, the jar holds B's snapshot, and a third request that carried it
\* has been answered and applied.
C24_Witness ==
  /\ Len(flight) = 3
  /\ flight[1].query = LinkA /\ flight[2].query = LinkBPlain
  /\ FirstVisit(1) /\ FirstVisit(2)
  /\ Applied(1) /\ Applied(2)
  /\ flight[3].query = LinkA /\ LaterVisit(3) /\ Applied(3)
  /\ flight[3].sentWith = SnapshotOf(2)
  /\ jar = SnapshotOf(2)
  /\ jar # SnapshotOf(1)
  /\ StoredRefCode(jar) = JsStr(CodeB)
  /\ last.op = "applied" /\ last.request = 3

\* ---------------------------------------------------------------------------
\* Ordering of the conversion call

\* The tx_hash of the body the conversion request of a call carries.
SentTxHash(run) == GetProp(RequestJson(run.net.body), "tx_hash")

\* C25: a click that buys calls the conversion endpoint at most once; the
\* request is sent in the step in which buyPresaleTokens returns from
\* waitForReceipt, and carries the hash it returned; a buy step that throws
\* ends the click without a request.
C25_ConversionCalledAfterReceipt ==
  /\ [](\A i \in 1..Len(ui.runs) :
          /\ ui.runs[i].calls <= 1
          /\ ui.runs[i].net.stage # "none" =>
                ui.runs[i].pc = "tracking" /\ ui.runs[i].calls = 1
          /\ ui.runs[i].net.stage = "request" =>
                ui.runs[i].buyTx # "" /\ SentTxHash(ui.runs[i]) = JsStr(ui.runs[i].buyTx)
          /\ ui.runs[i].pc \in {"approving", "inviting", "round", "buying", "receipt"} =>
                ui.runs[i].calls = 0)
  /\ [][\A i \in 1..Len(ui.runs) :
          /\ ui'.runs[i].calls # ui.runs[i].calls =>
                /\ ui.runs[i].pc = "receipt" /\ ui'.runs[i].pc = "tracking"
                /\ last'.op = "buy step" /\ last'.ok
                /\ ui'.runs[i].net.stage = "request"
          /\ (ui.runs[i].pc \in {"inviting", "round", "buying", "receipt"}
                /\ ~Live(ui'.runs[i])) =>
                /\ last'.op = "buy step" /\ ~last'.ok
                /\ ui'.runs[i].calls = 0 /\ ui'.runs[i].net.stage = "none"
                /\ conversions' = conversions]_vars

\* The receipt of a buy has arrived and the one request of the click is on its
\* way with the hash.
C25_Witness ==
  /\ last.op = "buy step" /\ last.ok
  /\ \E i \in 1..Len(ui.runs) :
        /\ ui.runs[i].pc = "tracking"
        /\ ui.runs[i].net.stage = "request"
        /\ ui.runs[i].calls = 1
        /\ SentTxHash(ui.runs[i]) = JsStr(ui.runs[i].buyTx)

\* ---------------------------------------------------------------------------
\* Address normalization

\* The string is trimmed and lower-cased already.
IsNormalized(s) == toLowerCase(trim(s)) = s

ReferrersNormalized(refs) ==
  \A i \in 1..Len(refs) : IsNormalized(refs[i].referrer_address)

ConversionsNormalized(convs) ==
  \A i \in 1..Len(convs) :
    IsNormalized(convs[i].referrer_address) /\ IsNormalized(convs[i].buyer_address)

\* C26: every Referrer row's address and every Conversion row's referrer and
\* buyer address is trimmed and lower-cased, in the tables as they are and in
\* the tables any generate or conversion call of the model would leave,
\* whatever the case and the surrounding blanks of the address supplied.
C26_AddressesNormalized ==
  /\ ReferrersNormalized(referrers)
  /\ ConversionsNormalized(conversions)
  /\ \A b \in GenerateBodies :
        ReferrersNormalized(GeneratePOST(b, referrers, ServerNow + 1, FALSE).refs)
  /\ \A b \in ValidConvertBodies :
        ConversionsNormalized(ConvertWith(RequestCookieValue(jar), b, "none").convs)

\* A referrer registered, a conversion stored, and the cookie resolving: the
\* generate call with the mixed-case, blank-padded address rewrites the row of
\* the lower-cased one, and the conversion call with the padded mixed-case
\* buyer appends a row with the normalized buyer.
C26_Witness ==
  /\ Len(conversions) > 0
  /\ \E i \in 1..Len(referrers) : referrers[i].referrer_address = AddressA
  /\ ~IsNormalized(AddressAMixed)
  /\ LET r == GeneratePOST(GenerateBody(JsStr(AddressAMixed)), referrers, ServerNow + 1, FALSE)
     IN r.resp.status = 200 /\ Len(r.refs) = Len(referrers)
  /\ ~IsNormalized(GetProp(BodyB, "buyer_address").s)
  /\ LET c == ConvertWith(RequestCookieValue(jar), BodyB, "none").convs
     IN /\ Len(c) = Len(conversions) + 1
        /\ c[Len(c)].buyer_address = normalizeAddress(GetProp(BodyB, "buyer_address").s)
        /\ c[Len(c)].referrer_address = AddressA

\* ---------------------------------------------------------------------------
\* Referential invariant of conversions

\* The conversion row carries the code and the address of a row of refs.
CreditedIn(conv, refs) ==
  \E i \in 1..Len(refs) :
    /\ refs[i].ref_code = conv.ref_code
    /\ refs[i].referrer_address = conv.referrer_address

AllowListed(address) ==
  \E i \in 1..Len(REFERRAL_WHITELIST) : REFERRAL_WHITELIST[i] = address

\* C27: every Conversion row carries the ref_code and the address of one
\* Referrer row, a row that was in the table in the state in which the
\* conversion was inserted; every Referrer row's address is on the allow-list.
C27_ConversionsCreditReferrers ==
  /\ [](/\ \A i \in 1..Len(conversions) : CreditedIn(conversions[i], referrers)
        /\ \A i \in 1..Len(referrers) : AllowListed(referrers[i].referrer_address))
  /\ [][Len(conversions') > Len(conversions) =>
          /\ Len(conversions') = Len(conversions) + 1
          /\ CreditedIn(conversions'[Len(conversions')], referrers)]_vars

\* A referrer has generated its code, a conversion has just been credited to
\* it, and an address that is not allow-listed is refused.
C27_Witness ==
  /\ Len(referrers) = 1
  /\ Len(conversions) > 0
  /\ last.op = "convert"
  /\ last.resp.body = AttributedBody(TRUE)
  /\ conversions[Len(conversions)].referrer_address = AddressA
  /\ referrers[1].referrer_address = AddressA
  /\ GeneratePOST(GenerateBody(JsStr(AddressOther)), referrers, ServerNow + 1, FALSE).resp.status
       = 403

\* ---------------------------------------------------------------------------
\* A cookie that holds no readable snapshot

\* The stored cookie is not empty and what the convert route makes of it is
\* no JSON value: the framework or the route cannot decode it, or JSON.parse
\* throws on it.
Unparsable(cookie) ==
  /\ cookie.present
  /\ cookie.value # ""
  /\ LET d == decodeURIComponent(cookie.value)
     IN \/ ~d.ok
        \/ ~decodeURIComponent(d.s).ok
        \/ ~JsonParse(decodeURIComponent(d.s).s).ok

\* No visit with a ref parameter makes the middleware set a cookie over this
\* one, and no conversion call made with it is answered attributed:true.
KeptAndUnattributed(cookie) ==
  LET existing == RequestCookieValue(cookie)
  IN /\ \A q \in AllQueries :
          HasRef(q) => middleware(q, existing, BrowserNow + 1).setCookie = <<>>
     /\ \A b \in ConvertBodies : \A f \in Faults :
          LET r == ConvertWith(existing, b, f)
          IN /\ r.resp.body # AttributedBody(TRUE)
             /\ r.convs = conversions
             /\ \/ r.resp = JsonResponse(200, AttributedBody(FALSE))
                \/ DOMAIN r.resp.body = {"error"}

\* C28 as stated: while the browser holds a non-empty unparsable cookie, the
\* middleware replaces it on no visit and every conversion call made with it
\* is answered attributed:false or an error.
C28_NonEmptyUnparsableCookieKept ==
  /\ Unparsable(jar) => KeptAndUnattributed(jar)
  /\ (last.op = "middleware" /\ Unparsable(last.jarBefore)) => jar = last.jarBefore

\* C28, amended: the same of a cookie whose value, as the framework hands it
\* to the middleware, is a string that is not blank.
C28_NonBlankUnparsableCookieKept ==
  /\ (Unparsable(jar) /\ NonBlank(RequestCookieValue(jar))) => KeptAndUnattributed(jar)
  /\ (/\ last.op = "middleware"
      /\ Unparsable(last.jarBefore)
      /\ NonBlank(RequestCookieValue(last.jarBefore)))
       => (last.res.setCookie = <<>> /\ jar = last.jarBefore)

\* The browser holds plain text in the cookie, has visited with a valid code
\* and holds it still, while a referrer with that code is registered.
C28_Witness ==
  /\ last.op = "middleware"
  /\ Unparsable(last.jarBefore)
  /\ last.jarBefore.value = "garbage"
  /\ HasRef(page.query)
  /\ isValidRefCode(trim(page.query.ref.s))
  /\ RowsWithCode(trim(page.query.ref.s)) # {}
  /\ jar = last.jarBefore
  /\ ConvertWith(RequestCookieValue(jar), BodyB, "none").resp
       = JsonResponse(200, AttributedBody(FALSE))

\* ---------------------------------------------------------------------------
\* Approve before buy

\* The i-th call of onClickCta has invoked buyPresaleTokens.
BuyInvoked(run) == run.pc \in {"buying", "receipt", "tracking"}

\* The approval in force is one of this amount by this account.
ApprovedFor(approval, amount, address) ==
  approval = <<[amount |-> amount, address |-> address]>>

\* C29: buyPresaleTokens is invoked only with the amount and the account of
\* an approval that an earlier click completed; the button offers Buy only
\* while the amount and the account on the page are those of that approval;
\* a completed buy puts the page back on Approve.
C29_ApproveBeforeBuy ==
  /\ \A i \in 1..Len(ui.runs) :
        BuyInvoked(ui.runs[i]) =>
          ApprovedFor(ui.runs[i].approval, ui.runs[i].amount, ui.runs[i].address)
  /\ (ui.rendered.approvedThisSession /\ canClick(ui.rendered)) =>
        ApprovedFor(ui.approval, ui.rendered.amount, ui.rendered.address)
  /\ (last.op = "settled" /\ last.ok /\ "Transaction sent" = ui.toasts[Len(ui.toasts)]) =>
        ~ui.approvedThisSession

\* ---------------------------------------------------------------------------
\* No overlapping purchase actions

\* C30: at most one call of onClickCta is between its first await and its
\* end, so at most one approve or buy transaction is in flight; while one is,
\* the page is not idle and its handler refuses clicks, and a click that
\* arrives starts no call.
C30_NoOverlappingActions ==
  /\ Cardinality(LiveRuns(ui)) <= 1
  /\ (LiveRuns(ui) # {}) => ui.loadingPhase # "idle" /\ ~canClick(ui.rendered)
  /\ (last.op = "click" /\ last.live) => ~last.started

====
